---- MODULE Spec2Model ----
(***************************************************************************)
(* A model of the fantasy-basketball matchup analyzer:                      *)
(*   src/src/analyzers/matchup_analyzer.py   (MatchupAnalyzer)              *)
(*   src/src/analyzers/schedule_analyzer.py  (ScheduleAnalyzer)             *)
(*   src/src/scrapers/espn_fantasy_client.py (ESPNFantasyClient)            *)
(*                                                                         *)
(* Python dicts are functions with string keys, lists and DataFrames are   *)
(* sequences (a DataFrame is the sequence of its rows), None is the empty  *)
(* function.  Floats that the code obtains by a division are exact         *)
(* fractions [n, d] in lowest terms; all other numbers are integers.       *)
(* Calendar dates are day numbers, day 0 being a Monday.  Where the code    *)
(* reads an int that may be None (a team id, a period), None is 0.         *)
(***************************************************************************)
EXTENDS Integers, Sequences, FiniteSets, TLC

VARIABLES
    team_id,        \* self.team_id
    scoring_type,   \* self.scoring_type
    categories,     \* self.categories (Unset when __init__ never assigns it)
    player_stats,   \* self.player_stats: rows of the player-rate CSV
    schedule_df,    \* self.schedule_analyzer.schedule_df: rows of the schedule CSV
    pc,             \* "idle": no call pending; "done": a call has returned or raised
    call,           \* the operation last called, with its inputs
    result,         \* the value it returned
    raised,         \* the exception it raised ("" when it returned)
    log,            \* what it printed: the diagnostics, in order
    threads         \* the calls of concurrent callers: for each caller its
                    \* position, its call, its local values and its answer

vars == <<team_id, scoring_type, categories, player_stats, schedule_df,
          pc, call, result, raised, log, threads>>

tables == <<team_id, scoring_type, categories, player_stats, schedule_df>>

(***************************************************************************)
(* Bounds of the model.                                                    *)
(***************************************************************************)
MaxCats == 2        \* scoring items of a league configuration
MaxVal == 2         \* a side's cumulative value in one category is in 0..MaxVal
MaxPts == 1         \* a side's upstream totalPoints is in 0..MaxPts
MaxStatRows == 2    \* rows of the player-rate table
MaxRoster == 2      \* players of a roster
MaxDay == 2         \* dates of calls are day numbers in 0..MaxDay
MaxGames == 2       \* rows of the schedule table of the schedule queries
MaxPageRows == 3    \* rows of a team's schedule page
MaxScrapePages == 3 \* pages of the statistics site, and the largest max_pages
MaxScrapeRows == 2  \* rows of one table of a statistics page

(***************************************************************************)
(* Python values.                                                          *)
(***************************************************************************)
PyNone == << >>
IsNone(x) == DOMAIN x = {}

\* dict.get(k, default), for a dict with string keys
GetOr(d, k, default) == IF k \in DOMAIN d THEN d[k] ELSE default

\* str(i) of an int, or of None
PyStr(i) == IF ToString(i) = ToString(PyNone) THEN "None" ELSE ToString(i)

RECURSIVE GCD(_, _)
GCD(a, b) == IF b = 0 THEN a ELSE GCD(b, a % b)

\* the float n / d (d > 0, n >= 0), kept exact and in lowest terms
Frac(n, d) == LET g == GCD(n, d) IN [n |-> n \div g, d |-> d \div g]
FracOfInt(i) == [n |-> i, d |-> 1]

\* n / d of two numpy numbers: not a number (with a warning) when d is 0
NaN == [n |-> 0, d |-> 0]
PyDiv(n, d) == IF d = 0 THEN NaN ELSE Frac(n, d)
FracAdd(x, y) == Frac(x.n * y.d + y.n * x.d, x.d * y.d)
FracLt(x, y) == x.n * y.d < y.n * x.d

RECURSIVE SumOver(_, _)
\* sum of op(row) over the rows of a sequence (Series.sum())
SumOver(rows, col) ==
    IF rows = << >> THEN 0
    ELSE rows[1][col] + SumOver(Tail(rows), col)

\* all sequences over S of length at most n
SeqsUpTo(S, n) == UNION {[1..k -> S] : k \in 0..n}

(***************************************************************************)
(* ESPNFantasyClient.get_league_info and MatchupAnalyzer.__init__          *)
(***************************************************************************)
\* get_league_info: the league_info dict built from the mSettings response
\* (only the keys __init__ reads)
get_league_info(settings) ==
    LET scoring == GetOr(settings, "scoringSettings", PyNone)
        st == IF GetOr(scoring, "scoringType", "") = "H2H_CATEGORY"
              THEN "H2H Category" ELSE "Points"
        items == GetOr(scoring, "scoringItems", << >>)
        cats == [i \in 1..Len(items) |->
                    [stat_id |-> GetOr(items[i], "statId", PyNone),
                     is_negative |-> GetOr(items[i], "isReverseItem", FALSE)]]
    IN  IF st = "H2H Category"
        THEN [scoring_type |-> st, scoring_categories |-> cats]
        ELSE [scoring_type |-> st]

\* 'Category' in raw / 'Points' in raw, for the two strings get_league_info gives
HasWord(raw, word) ==
    \/ word = "Category" /\ raw = "H2H Category"
    \/ word = "Points" /\ raw = "Points"

\* self.scoring_type after __init__
InitScoringType(league_info) ==
    LET raw == league_info["scoring_type"]
        first == IF HasWord(raw, "Category") THEN "H2H Category"
                 ELSE IF HasWord(raw, "Points") THEN "Points"
                 ELSE raw
    IN  IF "scoring_categories" \in DOMAIN league_info
           /\ league_info["scoring_categories"] # << >>
        THEN "H2H Category" ELSE first

\* self.categories is never assigned when the list is missing or empty
Unset == << >>

\* self.categories after __init__
InitCategories(league_info) ==
    IF "scoring_categories" \in DOMAIN league_info
       /\ league_info["scoring_categories"] # << >>
    THEN league_info["scoring_categories"] ELSE Unset

\* _map_stat_id_to_column: the dict has int keys; the argument is a Python
\* value carrying its type, [t |-> "int", v |-> 7] or [t |-> "str", v |-> "7"]
stat_map ==
    (0 :> "PTS") @@ (1 :> "BLK") @@ (2 :> "STL") @@ (3 :> "AST") @@ (6 :> "REB")
    @@ (11 :> "TO") @@ (13 :> "FGM") @@ (14 :> "FGA") @@ (15 :> "FTM")
    @@ (16 :> "FTA") @@ (17 :> "3PM") @@ (18 :> "3PA") @@ (19 :> "FG%")
    @@ (20 :> "FT%")

_map_stat_id_to_column(stat_id) ==
    IF stat_id.t = "int"
    THEN IF stat_id.v \in DOMAIN stat_map THEN stat_map[stat_id.v]
         ELSE "STAT_" \o PyStr(stat_id.v)
    ELSE "STAT_" \o stat_id.v

\* ESPNFantasyClient.map_espn_team_to_abbr
team_map ==
    (1 :> "ATL") @@ (2 :> "BOS") @@ (3 :> "NO") @@ (4 :> "CHI") @@ (5 :> "CLE")
    @@ (6 :> "DAL") @@ (7 :> "DEN") @@ (8 :> "DET") @@ (9 :> "GSW") @@ (10 :> "HOU")
    @@ (11 :> "IND") @@ (12 :> "LAC") @@ (13 :> "LAL") @@ (14 :> "MIA") @@ (15 :> "MIL")
    @@ (16 :> "MIN") @@ (17 :> "BKN") @@ (18 :> "NYK") @@ (19 :> "ORL") @@ (20 :> "PHI")
    @@ (21 :> "PHX") @@ (22 :> "POR") @@ (23 :> "SAC") @@ (24 :> "SAS") @@ (25 :> "OKC")
    @@ (26 :> "TOR") @@ (27 :> "UTAH") @@ (28 :> "WAS") @@ (29 :> "CHA") @@ (30 :> "MEM")

map_espn_team_to_abbr(espn_team_id) ==
    IF espn_team_id \in DOMAIN team_map THEN team_map[espn_team_id] ELSE "UNK"

(***************************************************************************)
(* MatchupAnalyzer.get_current_matchup_scores                              *)
(***************************************************************************)
\* the scoreByStat (else stats) dict of one side, its keys the stat ids as strings
SideStats(side) ==
    LET cumulative == GetOr(side, "cumulativeScore", PyNone)
        byStat == GetOr(cumulative, "scoreByStat", PyNone)
    IN  IF ~IsNone(byStat) THEN byStat ELSE GetOr(cumulative, "stats", PyNone)

\* StatValue giving 1 to a side without the entry
StatValueDefaultOne(stats, key) == GetOr(stats, key, 1)

\* the value of one category for one side: the entry's score, 0 when the
\* entry is missing or falsy
StatValue(stats, key) == GetOr(stats, key, 0)

\* Winner with the orientation flag ignored: higher always wins
WinnerHigherAlways(is_negative, your_value, opp_value) ==
    IF your_value > opp_value THEN "YOU"
    ELSE IF opp_value > your_value THEN "OPP"
    ELSE "TIE"

\* the winner of one category (lower wins a negative category)
Winner(is_negative, your_value, opp_value) ==
    IF is_negative
    THEN IF your_value < opp_value THEN "YOU"
         ELSE IF opp_value < your_value THEN "OPP"
         ELSE "TIE"
    ELSE IF your_value > opp_value THEN "YOU"
         ELSE IF opp_value > your_value THEN "OPP"
         ELSE "TIE"

\* the name under which a category is recorded: the stat id is made a string
\* first, and the string is what the map is asked for
CategoryName(cat) ==
    _map_stat_id_to_column([t |-> "str", v |-> PyStr(cat.stat_id)])

\* one entry of category_breakdown
BreakdownEntry(cat, your_stats, opp_stats) ==
    LET key == PyStr(cat.stat_id)
        your_value == StatValue(your_stats, key)
        opp_value == StatValue(opp_stats, key)
    IN  [category |-> CategoryName(cat),
         your_score |-> your_value,
         opp_score |-> opp_value,
         winner |-> Winner(cat.is_negative, your_value, opp_value),
         is_negative |-> cat.is_negative]

\* category_breakdown: one entry per category, in the order of self.categories
CategoryBreakdown(cats, your_stats, opp_stats) ==
    [i \in 1..Len(cats) |-> BreakdownEntry(cats[i], your_stats, opp_stats)]

\* your_wins / opp_wins / ties: the entries of the breakdown with that winner
CountWinner(breakdown, who) ==
    Cardinality({i \in 1..Len(breakdown) : breakdown[i].winner = who})

\* the matchups of the schedule that the search loop accepts, by position
MatchingMatchups(schedule, current_period, tid) ==
    {i \in 1..Len(schedule) :
        /\ GetOr(schedule[i], "matchupPeriodId", 0) = current_period
        /\ \/ GetOr(GetOr(schedule[i], "home", PyNone), "teamId", 0) = tid
           \/ GetOr(GetOr(schedule[i], "away", PyNone), "teamId", 0) = tid}

Min(S) == CHOOSE x \in S : \A y \in S : x <= y

\* ReportedWins falling back as soon as one upstream count is zero
ReportedWinsEitherZero(upstream_yours, upstream_opp, your_wins, opp_wins) ==
    IF upstream_yours = 0 \/ upstream_opp = 0
    THEN <<your_wins, opp_wins>>
    ELSE <<upstream_yours, upstream_opp>>

\* the reported win counts: the upstream totalPoints unless both are zero
ReportedWins(upstream_yours, upstream_opp, your_wins, opp_wins) ==
    IF upstream_yours = 0 /\ upstream_opp = 0
    THEN <<your_wins, opp_wins>>
    ELSE <<upstream_yours, upstream_opp>>

\* the dict built for an H2H Category league
CategoryResult(current_period, tid, cats, home, away, is_home) ==
    LET home_stats == SideStats(home)
        away_stats == SideStats(away)
        your_stats == IF is_home THEN home_stats ELSE away_stats
        opp_stats == IF is_home THEN away_stats ELSE home_stats
        upstream_yours == IF is_home THEN GetOr(home, "totalPoints", 0)
                          ELSE GetOr(away, "totalPoints", 0)
        upstream_opp == IF is_home THEN GetOr(away, "totalPoints", 0)
                        ELSE GetOr(home, "totalPoints", 0)
        breakdown == CategoryBreakdown(cats, your_stats, opp_stats)
        won == ReportedWins(upstream_yours, upstream_opp,
                            CountWinner(breakdown, "YOU"),
                            CountWinner(breakdown, "OPP"))
    IN  [week |-> current_period,
         scoring_type |-> "H2H Category",
         your_team_id |-> tid,
         opponent_team_id |-> IF is_home THEN GetOr(away, "teamId", 0)
                              ELSE GetOr(home, "teamId", 0),
         categories_won |-> won[1],
         categories_lost |-> won[2],
         categories_tied |-> CountWinner(breakdown, "TIE"),
         is_winning |-> won[1] > won[2],
         category_breakdown |-> breakdown]

\* the dict built for a Points league
PointsResult(current_period, tid, home, away, is_home) ==
    LET your_score == IF is_home THEN GetOr(home, "totalPoints", 0)
                      ELSE GetOr(away, "totalPoints", 0)
        opp_score == IF is_home THEN GetOr(away, "totalPoints", 0)
                     ELSE GetOr(home, "totalPoints", 0)
    IN  [week |-> current_period,
         scoring_type |-> "Points",
         your_team_id |-> tid,
         opponent_team_id |-> IF is_home THEN GetOr(away, "teamId", 0)
                              ELSE GetOr(home, "teamId", 0),
         your_total_score |-> your_score,
         opponent_total_score |-> opp_score,
         is_winning |-> your_score > opp_score,
         point_differential |-> your_score - opp_score]

\* get_current_matchup_scores raising when the matchup is not found
ScoresRaisingWhenMissing(tid, stype, cats, week, data) ==
    LET current_period == GetOr(data, "scoringPeriodId", week)
        schedule == GetOr(data, "schedule", << >>)
        found == MatchingMatchups(schedule, current_period, tid)
    IN  IF schedule = << >> \/ found = {}
        THEN [value |-> PyNone, raised |-> "Exception"]
        ELSE LET your_matchup == schedule[Min(found)]
                 home == GetOr(your_matchup, "home", PyNone)
                 away == GetOr(your_matchup, "away", PyNone)
                 is_home == GetOr(home, "teamId", 0) = tid
             IN  IF stype = "H2H Category" /\ cats # Unset
                 THEN [value |-> CategoryResult(current_period, tid, cats,
                                                home, away, is_home),
                       raised |-> ""]
                 ELSE [value |-> PointsResult(current_period, tid, home, away,
                                              is_home),
                       raised |-> ""]

\* get_current_matchup_scores taking the last matchup of the team
ScoresOfLastMatchup(tid, stype, cats, week, data) ==
    LET current_period == GetOr(data, "scoringPeriodId", week)
        schedule == GetOr(data, "schedule", << >>)
        found == MatchingMatchups(schedule, current_period, tid)
    IN  IF schedule = << >> \/ found = {}
        THEN [value |-> PyNone, raised |-> ""]
        ELSE LET your_matchup == schedule[CHOOSE i \in found :
                                             \A j \in found : j <= i]
                 home == GetOr(your_matchup, "home", PyNone)
                 away == GetOr(your_matchup, "away", PyNone)
                 is_home == GetOr(home, "teamId", 0) = tid
             IN  IF stype = "H2H Category"
                 THEN IF cats = Unset
                      THEN [value |-> PyNone, raised |-> "AttributeError"]
                      ELSE [value |-> CategoryResult(current_period, tid, cats,
                                                     home, away, is_home),
                            raised |-> ""]
                 ELSE [value |-> PointsResult(current_period, tid, home, away,
                                              is_home),
                       raised |-> ""]

\* get_current_matchup_scores(week) on the response `data`:
\* [value |-> the dict or None, raised |-> the exception or ""]
get_current_matchup_scores(tid, stype, cats, week, data) ==
    LET current_period == GetOr(data, "scoringPeriodId", week)
        schedule == GetOr(data, "schedule", << >>)
        found == MatchingMatchups(schedule, current_period, tid)
    IN  IF schedule = << >> \/ found = {}
        THEN [value |-> PyNone, raised |-> ""]
        ELSE LET your_matchup == schedule[Min(found)]
                 home == GetOr(your_matchup, "home", PyNone)
                 away == GetOr(your_matchup, "away", PyNone)
                 is_home == GetOr(home, "teamId", 0) = tid
             IN  IF stype = "H2H Category"
                 THEN IF cats = Unset
                      THEN [value |-> PyNone, raised |-> "AttributeError"]
                      ELSE [value |-> CategoryResult(current_period, tid, cats,
                                                     home, away, is_home),
                            raised |-> ""]
                 ELSE [value |-> PointsResult(current_period, tid, home, away,
                                              is_home),
                       raised |-> ""]

(***************************************************************************)
(* ScheduleAnalyzer.get_games_in_date_range                                *)
(***************************************************************************)
\* str.upper() of a team code
upper_of == ("atl" :> "ATL") @@ ("bos" :> "BOS") @@ ("chi" :> "CHI")
Upper(team) == IF team \in DOMAIN upper_of THEN upper_of[team] ELSE team

RECURSIVE InsertByDate(_, _)
\* row put into a date-sorted sequence, behind the rows of the same date
InsertByDate(sorted, row) ==
    IF sorted = << >> THEN <<row>>
    ELSE IF row.ParsedDate < sorted[1].ParsedDate THEN <<row>> \o sorted
    ELSE <<sorted[1]>> \o InsertByDate(Tail(sorted), row)

RECURSIVE SortByDate(_)
\* DataFrame.sort_values('ParsedDate')
SortByDate(rows) ==
    IF rows = << >> THEN << >>
    ELSE InsertByDate(SortByDate(SubSeq(rows, 1, Len(rows) - 1)), rows[Len(rows)])

\* the mask leaving out the games of the end date
InRangeBeforeEnd(row, team, start, end) ==
    /\ row.Team = Upper(team)
    /\ row.ParsedDate >= start
    /\ row.ParsedDate < end

\* the mask of get_games_in_date_range: both bounds inclusive
InRange(row, team, start, end) ==
    /\ row.Team = Upper(team)
    /\ row.ParsedDate >= start
    /\ row.ParsedDate <= end

get_games_in_date_range(df, team, start_date, end_date) ==
    SortByDate(SelectSeq(df, LAMBDA row : InRange(row, team, start_date, end_date)))

\* self.schedule_df sorted where it stands by a query
TableSortedInPlace(df) == SortByDate(df)

\* self.schedule_df after a query: the mask and sort_values build new
\* frames, and no query assigns the attribute
TableAfterQuery(df) == df

(***************************************************************************)
(* ScheduleAnalyzer: the other schedule queries                            *)
(***************************************************************************)
\* get_game_count_in_range missing the games of the last day
GameCountBeforeEnd(df, team, start_date, end_date) ==
    Len(get_games_in_date_range(df, team, start_date, end_date - 1))

get_game_count_in_range(df, team, start_date, end_date) ==
    Len(get_games_in_date_range(df, team, start_date, end_date))

\* the team codes, in the order of sorted()
TeamCodes == <<"ATL", "BOS", "CHI">>

\* get_teams_playing_on listing the teams of the table, whatever the date
TeamsPlayingAnyDay(df, date) ==
    SelectSeq(TeamCodes, LAMBDA t : \E i \in 1..Len(df) : df[i].Team = t)

\* get_teams_playing_on(date): sorted(games['Team'].unique())
get_teams_playing_on(df, date) ==
    SelectSeq(TeamCodes,
              LAMBDA t : \E i \in 1..Len(df) :
                            df[i].Team = t /\ df[i].ParsedDate = date)

\* Timestamp.dayofweek: day 0 is a Monday
DayOfWeek(day) == day % 7

RECURSIVE Unique(_)
\* Series.unique(): the first occurrences, in order
Unique(seq) ==
    IF seq = << >> THEN << >>
    ELSE LET front == Unique(SubSeq(seq, 1, Len(seq) - 1))
             last == seq[Len(seq)]
         IN  IF \E i \in 1..Len(front) : front[i] = last THEN front
             ELSE Append(front, last)

\* the days of the week of a frame's rows
DaysOfWeek(rows) == [i \in 1..Len(rows) |-> DayOfWeek(rows[i].ParsedDate)]

\* the rows from week_start to week_end, both inclusive
WeekGames(df, week_start, week_end) ==
    SelectSeq(df, LAMBDA row : row.ParsedDate >= week_start
                               /\ row.ParsedDate <= week_end)

\* groupby('Team'): one row per team with a game, in the order of the codes
GameCounts(week_games) ==
    LET of(t) == SelectSeq(week_games, LAMBDA row : row.Team = t)
        teams == SelectSeq(TeamCodes, LAMBDA t : of(t) # << >>)
    IN  [i \in 1..Len(teams) |->
            [Team |-> teams[i], GamesInWeek |-> Len(of(teams[i])),
             GameDays |-> Unique(DaysOfWeek(of(teams[i])))]]

RECURSIVE InsertByCount(_, _)
\* row put into a sequence of descending counts, behind the rows of its count
InsertByCount(sorted, row) ==
    IF sorted = << >> THEN <<row>>
    ELSE IF row.GamesInWeek > sorted[1].GamesInWeek THEN <<row>> \o sorted
    ELSE <<sorted[1]>> \o InsertByCount(Tail(sorted), row)

RECURSIVE SortByCount(_)
\* sort_values('GamesInWeek', ascending=False)
SortByCount(rows) ==
    IF rows = << >> THEN << >>
    ELSE InsertByCount(SortByCount(SubSeq(rows, 1, Len(rows) - 1)), rows[Len(rows)])

\* the week start going forward to the next Monday
WeekStartForward(week_start_date) ==
    IF DayOfWeek(week_start_date) # 0
    THEN week_start_date + (7 - DayOfWeek(week_start_date))
    ELSE week_start_date

\* the Monday used as the start of the week
WeekStart(week_start_date) ==
    IF DayOfWeek(week_start_date) # 0
    THEN week_start_date - DayOfWeek(week_start_date)
    ELSE week_start_date

\* calculate_weekly_game_counts(week_start_date):
\* [value |-> the DataFrame, log |-> what was printed]
calculate_weekly_game_counts(df, week_start_date) ==
    LET week_start == WeekStart(week_start_date)
        week_end == week_start + 6
        week_games == WeekGames(df, week_start, week_end)
        warning == IF DayOfWeek(week_start_date) # 0
                   THEN <<[kind |-> "not_monday", date |-> week_start_date]>>
                   ELSE << >>
    IN  [value |-> SortByCount(GameCounts(week_games)),
         log |-> warning \o <<[kind |-> "week", week_start |-> week_start,
                               week_end |-> week_end,
                               total_games |-> Len(week_games)]>>]

\* the smallest and the largest date of a table with rows
MinDate(df) ==
    CHOOSE d \in {df[i].ParsedDate : i \in 1..Len(df)} :
        \A i \in 1..Len(df) : d <= df[i].ParsedDate
MaxDate(df) ==
    CHOOSE d \in {df[i].ParsedDate : i \in 1..Len(df)} :
        \A i \in 1..Len(df) : d >= df[i].ParsedDate

\* the teams of a table
TeamsIn(df) == {df[i].Team : i \in 1..Len(df)}

\* get_all_weekly_breakdowns leaving the loop before the week of the last
\* game unless that game is on its Sunday
WeeklyBreakdownsOfFullWeeks(df) ==
    LET first_monday == MinDate(df) - DayOfWeek(MinDate(df))
        weeks == (MaxDate(df) - first_monday + 1) \div 7
    IN  [week_num \in 1..weeks |->
            LET current_monday == first_monday + 7 * (week_num - 1)
                week_games == WeekGames(df, current_monday, current_monday + 6)
            IN  [Week |-> week_num,
                 WeekStart |-> current_monday,
                 WeekEnd |-> current_monday + 6,
                 counts |-> [t \in TeamsIn(df) |->
                                Len(SelectSeq(week_games,
                                              LAMBDA row : row.Team = t))]]]

\* get_all_weekly_breakdowns() of a table with rows: one row per week from
\* the Monday of the first game to the week of the last game, each with the
\* count of every team of the table (0 without a game)
get_all_weekly_breakdowns(df) ==
    LET first_monday == MinDate(df) - DayOfWeek(MinDate(df))
        weeks == ((MaxDate(df) - first_monday) \div 7) + 1
    IN  [week_num \in 1..weeks |->
            LET current_monday == first_monday + 7 * (week_num - 1)
                week_games == WeekGames(df, current_monday, current_monday + 6)
            IN  [Week |-> week_num,
                 WeekStart |-> current_monday,
                 WeekEnd |-> current_monday + 6,
                 counts |-> [t \in TeamsIn(df) |->
                                Len(SelectSeq(week_games,
                                              LAMBDA row : row.Team = t))]]]

(***************************************************************************)
(* ESPNScheduleScraper._enhance_schedule                                   *)
(***************************************************************************)
\* pd.NaT, the date of a DATE cell that cannot be parsed
NaT == -1

\* the number of the day before the first of each month, day 0 being Monday
\* 2025-09-29: October to December are of 2025, January to September of 2026
MonthStart ==
    [Oct |-> 1, Nov |-> 32, Dec |-> 62, Jan |-> 93, Feb |-> 124, Mar |-> 152,
     Apr |-> 183, May |-> 213, Jun |-> 244, Jul |-> 274, Aug |-> 305, Sep |-> 336]

\* the days of each month of 2025, the year strptime is given
MonthLen ==
    [Oct |-> 31, Nov |-> 30, Dec |-> 31, Jan |-> 31, Feb |-> 28, Mar |-> 31,
     Apr |-> 30, May |-> 31, Jun |-> 30, Jul |-> 31, Aug |-> 31, Sep |-> 30]

\* parse_espn_date of a cell "<day name>, <mon> <day>"
parse_espn_date(date_str) ==
    IF date_str.mon \in DOMAIN MonthStart
       /\ date_str.day >= 1 /\ date_str.day <= MonthLen[date_str.mon]
    THEN MonthStart[date_str.mon] + date_str.day
    ELSE NaT

\* the frame left in the order of the page
KeepPageOrder(rows) == rows

RECURSIVE InsertByParsedDate(_, _)
\* row put into a date-sorted sequence, behind the rows of its date; NaT last
InsertByParsedDate(sorted, row) ==
    IF sorted = << >> THEN <<row>>
    ELSE IF row.ParsedDate # NaT
            /\ (sorted[1].ParsedDate = NaT \/ row.ParsedDate < sorted[1].ParsedDate)
    THEN <<row>> \o sorted
    ELSE <<sorted[1]>> \o InsertByParsedDate(Tail(sorted), row)

RECURSIVE SortByParsedDate(_)
\* df.sort_values('ParsedDate').reset_index(drop=True)
SortByParsedDate(rows) ==
    IF rows = << >> THEN << >>
    ELSE InsertByParsedDate(SortByParsedDate(SubSeq(rows, 1, Len(rows) - 1)),
                            rows[Len(rows)])

\* the row with its back-to-back columns set
Marked(row, position) ==
    [row EXCEPT !.IsBackToBack = TRUE, !.BackToBackPosition = position]

RECURSIVE MarkBackToBacks(_, _)
\* the loop over i (here from 2): rows i-1 and i one day apart are marked
\* First and Second, over whatever an earlier pass wrote
MarkBackToBacks(df, i) ==
    IF i > Len(df) THEN df
    ELSE IF df[i].ParsedDate # NaT /\ df[i - 1].ParsedDate # NaT
            /\ df[i].ParsedDate - df[i - 1].ParsedDate = 1
    THEN MarkBackToBacks([df EXCEPT ![i - 1] = Marked(df[i - 1], "First"),
                                    ![i] = Marked(df[i], "Second")], i + 1)
    ELSE MarkBackToBacks(df, i + 1)

\* _enhance_schedule(df, team_abbr) of the page rows with DATE and OPPONENT:
\* an OPPONENT cell is its prefix ('@', 'vs' or none) and the name behind it
enhance_schedule(df, team_abbr) ==
    LET parsed == [i \in 1..Len(df) |->
                     LET d == parse_espn_date(df[i].DATE)
                     IN  [Team |-> team_abbr, DATE |-> df[i].DATE,
                          OPPONENT |-> df[i].OPPONENT,
                          ParsedDate |-> d,
                          DayOfWeek |-> IF d = NaT THEN NaT ELSE d % 7,
                          IsBackToBack |-> FALSE,
                          BackToBackPosition |-> "None"]]
        marked == MarkBackToBacks(SortByParsedDate(parsed), 2)
    IN  [i \in 1..Len(marked) |->
            marked[i] @@
            [HomeAway |-> IF marked[i].OPPONENT.prefix = "@" THEN "Away" ELSE "Home",
             OpponentClean |-> marked[i].OPPONENT.name]]

(***************************************************************************)
(* MatchupAnalyzer.get_player_projections                                  *)
(***************************************************************************)
\* str.lower() of a name, a sequence of character codes
LowerChar(c) == IF c >= 65 /\ c <= 90 THEN c + 32 ELSE c
Lower(name) == [i \in DOMAIN name |-> LowerChar(name[i])]

\* the per-game columns that are projected
StatCols == {"PTS", "REB", "AST", "STL", "BLK", "3PM", "FGM", "FGA", "FTM", "FTA", "TO"}

\* the rows whose lower-cased Name is the lower-cased player name and whose
\* Team is the roster's team, by position
NameTeamMatches(tbl, player_name, pro_team) ==
    {i \in 1..Len(tbl) :
        Lower(tbl[i].Name) = Lower(player_name) /\ tbl[i].Team = pro_team}

\* the rows whose lower-cased Name is the lower-cased player name
NameMatches(tbl, player_name) ==
    {i \in 1..Len(tbl) : Lower(tbl[i].Name) = Lower(player_name)}

\* LookupPlayer by the name alone, the team never compared
LookupPlayerNameOnly(tbl, player_name, pro_team) ==
    LET byName == NameMatches(tbl, player_name)
    IN  IF byName # {}
        THEN [found |-> TRUE, row |-> tbl[Min(byName)],
              note |-> IF tbl[Min(byName)].Team = pro_team THEN << >>
                       ELSE <<[kind |-> "team_changed", player |-> player_name,
                               old_team |-> tbl[Min(byName)].Team,
                               new_team |-> pro_team]>>]
        ELSE [found |-> FALSE, row |-> PyNone,
              note |-> <<[kind |-> "not_found", player |-> player_name]>>]

\* the row used for a roster player (iloc[0] of the name+team rows, else of
\* the name rows) and what is printed:
\* [found, row, note] with note << >> when nothing is printed
LookupPlayer(tbl, player_name, pro_team) ==
    LET exact == NameTeamMatches(tbl, player_name, pro_team)
        byName == NameMatches(tbl, player_name)
    IN  IF exact # {}
        THEN [found |-> TRUE, row |-> tbl[Min(exact)], note |-> << >>]
        ELSE IF byName # {}
        THEN [found |-> TRUE, row |-> tbl[Min(byName)],
              note |-> <<[kind |-> "team_changed", player |-> player_name,
                          old_team |-> tbl[Min(byName)].Team,
                          new_team |-> pro_team]>>]
        ELSE [found |-> FALSE, row |-> PyNone,
              note |-> <<[kind |-> "not_found", player |-> player_name]>>]

\* the per-game average taken as the projection, whatever the games remaining
ProjectedOneGame(rate, games_remaining) == rate

\* per-game average times games remaining
Projected(rate, games_remaining) == rate * games_remaining

\* the projection dict of one resolved player
ProjectionRow(player_name, pro_team, stats, games_remaining) ==
    [c \in StatCols |-> Projected(GetOr(stats, c, 0), games_remaining)]
    @@ [Player |-> player_name, Team |-> pro_team,
        GamesRemaining |-> games_remaining]
    @@ ("FG%_Contribution" :>
            <<Projected(GetOr(stats, "FGM", 0), games_remaining),
              Projected(GetOr(stats, "FGA", 0), games_remaining)>>)
    @@ ("FT%_Contribution" :>
            <<Projected(GetOr(stats, "FTM", 0), games_remaining),
              Projected(GetOr(stats, "FTA", 0), games_remaining)>>)

\* GamesRemainingOf counting the games of every team in the window
GamesRemainingAllTeams(df, pro_team, start_date, end_date) ==
    Cardinality({i \in 1..Len(df) :
                    start_date <= df[i].ParsedDate /\ df[i].ParsedDate <= end_date})

\* the games counted for a roster player: those of the roster's team
GamesRemainingOf(df, pro_team, start_date, end_date) ==
    Len(get_games_in_date_range(df, pro_team, start_date, end_date))

RECURSIVE ProjectionsUntilUnresolved(_, _, _, _, _)
\* get_player_projections leaving the loop at the first player without stats
ProjectionsUntilUnresolved(tbl, df, roster, start_date, end_date) ==
    IF roster = << >> THEN [rows |-> << >>, log |-> << >>]
    ELSE LET player == roster[1]
             pro_team == map_espn_team_to_abbr(player.pro_team_id)
             found == LookupPlayer(tbl, player.name, pro_team)
             rest == ProjectionsUntilUnresolved(tbl, df, Tail(roster),
                                                start_date, end_date)
         IN  IF ~found.found
             THEN [rows |-> << >>, log |-> found.note]
             ELSE [rows |-> <<ProjectionRow(player.name, pro_team, found.row,
                                GamesRemainingOf(df, pro_team, start_date,
                                                 end_date))>>
                            \o rest.rows,
                   log |-> found.note \o rest.log]

RECURSIVE get_player_projections(_, _, _, _, _)
\* get_player_projections(roster, start_date, end_date):
\* [rows |-> the DataFrame, log |-> what was printed]
get_player_projections(tbl, df, roster, start_date, end_date) ==
    IF roster = << >> THEN [rows |-> << >>, log |-> << >>]
    ELSE LET player == roster[1]
             pro_team == map_espn_team_to_abbr(player.pro_team_id)
             found == LookupPlayer(tbl, player.name, pro_team)
             rest == get_player_projections(tbl, df, Tail(roster),
                                            start_date, end_date)
         IN  IF ~found.found
             THEN [rows |-> rest.rows, log |-> found.note \o rest.log]
             ELSE [rows |-> <<ProjectionRow(player.name, pro_team, found.row,
                                GamesRemainingOf(df, pro_team, start_date,
                                                 end_date))>>
                            \o rest.rows,
                   log |-> found.note \o rest.log]

(***************************************************************************)
(* ESPNFantasyClient.get_my_team, reduced to the roster it extracts        *)
(***************************************************************************)
\* the teams of the mRoster response with the asked id, by position
TeamsWithId(teams, tid) == {i \in 1..Len(teams) : teams[i].id = tid}

\* get_my_team(team_id): [value |-> the roster, raised |-> the exception or ""]
\* (a team_id of None, here 0, stands for the first team of the response)
get_my_team(teams, tid) ==
    IF teams = << >> THEN [value |-> << >>, raised |-> "Exception"]
    ELSE LET id == IF tid = 0 THEN teams[1].id ELSE tid
         IN  IF TeamsWithId(teams, id) = {}
             THEN [value |-> << >>, raised |-> "Exception"]
             ELSE [value |-> teams[Min(TeamsWithId(teams, id))].roster,
                   raised |-> ""]

(***************************************************************************)
(* MatchupAnalyzer.analyze_matchup                                         *)
(***************************************************************************)
\* the number of rows of nlargest(5, 'PTS')
TopN == 5

\* datetime.weekday() of a day number (day 0 is a Monday)
Weekday(day) == day % 7

\* week_end = today + timedelta(days=(6 - today.weekday()))
WeekEnd(today) == today + (6 - Weekday(today))

\* the percentage as the mean of the players' own percentages
PctMeanOfPlayers(rows, makes, attempts) ==
    LET shooters == {i \in 1..Len(rows) : rows[i][attempts] > 0}
        RECURSIVE Total(_)
        Total(S) == IF S = {} THEN FracOfInt(0)
                    ELSE LET i == CHOOSE x \in S : TRUE
                         IN  FracAdd(Frac(rows[i][makes] * 100, rows[i][attempts]),
                                     Total(S \ {i}))
    IN  IF shooters = {} THEN FracOfInt(0)
        ELSE Frac(Total(shooters).n, Total(shooters).d * Cardinality(shooters))

\* the percentage without the guard on the attempts
PctUnguarded(rows, makes, attempts) ==
    PyDiv(SumOver(rows, makes) * 100, SumOver(rows, attempts))

\* fg_pct / ft_pct: summed makes over summed attempts, times 100; 0 when no
\* attempt is projected
Pct(rows, makes, attempts) ==
    IF SumOver(rows, attempts) > 0
    THEN PyDiv(SumOver(rows, makes) * 100, SumOver(rows, attempts))
    ELSE FracOfInt(0)

\* the projected value added to a category: [known, value]; a category whose
\* name is neither a projection column nor FG% / FT% is passed over
ProjValue(cat_name, rows) ==
    IF cat_name \in StatCols
    THEN [known |-> TRUE, value |-> FracOfInt(SumOver(rows, cat_name))]
    ELSE IF cat_name = "FG%"
    THEN LET p == Pct(rows, "FGM", "FGA")
         IN  [known |-> TRUE, value |-> Frac(p.n, p.d * 100)]
    ELSE IF cat_name = "FT%"
    THEN LET p == Pct(rows, "FTM", "FTA")
         IN  [known |-> TRUE, value |-> Frac(p.n, p.d * 100)]
    ELSE [known |-> FALSE, value |-> FracOfInt(0)]

\* the projected outcome of one category: a win only by a strict comparison
ProjectedOutcome(is_negative, projected_yours, current_opp) ==
    IF is_negative
    THEN IF FracLt(projected_yours, current_opp) THEN "WINNING" ELSE "LOSING"
    ELSE IF FracLt(current_opp, projected_yours) THEN "WINNING" ELSE "LOSING"

RECURSIVE ProjectedLines(_, _)
\* the lines printed by the loop over category_breakdown, one per category
\* that is not passed over
ProjectedLines(breakdown, rows) ==
    IF breakdown = << >> THEN << >>
    ELSE LET cat == breakdown[1]
             pv == ProjValue(cat.category, rows)
             projected_yours == FracAdd(FracOfInt(cat.your_score), pv.value)
             rest == ProjectedLines(Tail(breakdown), rows)
         IN  IF ~pv.known THEN rest
             ELSE <<[kind |-> "outcome",
                     category |-> cat.category,
                     current_yours |-> cat.your_score,
                     current_opp |-> cat.opp_score,
                     is_negative |-> cat.is_negative,
                     projected_yours |-> projected_yours,
                     outcome |-> ProjectedOutcome(cat.is_negative, projected_yours,
                                                  FracOfInt(cat.opp_score))]>>
                  \o rest

\* proj_wins / proj_losses: the printed lines with that outcome
CountOutcome(lines, what) ==
    Cardinality({i \in 1..Len(lines) : lines[i].outcome = what})

\* "Projected Final Record: wins-losses-0"
RecordLine(lines) ==
    [kind |-> "projected_record",
     wins |-> CountOutcome(lines, "WINNING"),
     losses |-> CountOutcome(lines, "LOSING"),
     ties |-> 0]

RECURSIVE InsertByPts(_, _)
\* row put into a sequence sorted by PTS descending, behind the rows of the
\* same PTS
InsertByPts(sorted, row) ==
    IF sorted = << >> THEN <<row>>
    ELSE IF row["PTS"] > sorted[1]["PTS"] THEN <<row>> \o sorted
    ELSE <<sorted[1]>> \o InsertByPts(Tail(sorted), row)

RECURSIVE SortByPts(_)
SortByPts(rows) ==
    IF rows = << >> THEN << >>
    ELSE InsertByPts(SortByPts(SubSeq(rows, 1, Len(rows) - 1)), rows[Len(rows)])

TopCols == {"Player", "Team", "GamesRemaining", "PTS", "REB", "AST", "STL", "BLK"}

\* projections_df.nlargest(5, 'PTS')[[...]].to_dict('records')
TopPerformers(rows) ==
    LET sorted == SortByPts(rows)
        n == IF Len(sorted) < TopN THEN Len(sorted) ELSE TopN
    IN  [i \in 1..n |-> [c \in TopCols |-> sorted[i][c]]]

\* matchup['projections']
ProjectionsEntry(rows) ==
    [c \in {"PTS", "REB", "AST", "STL", "BLK", "3PM", "TO"} |-> SumOver(rows, c)]
    @@ [total_games |-> SumOver(rows, "GamesRemaining"),
        top_performers |-> TopPerformers(rows)]
    @@ ("FG%" :> Pct(rows, "FGM", "FGA"))
    @@ ("FT%" :> Pct(rows, "FTM", "FTA"))

\* analyze_matchup once the matchup is located: the roster asked for team
\* tid comes with the mRoster response teams, and is projected from day
\* today to the end of its week:
\* [value |-> the dict or None, raised, log |-> what was printed]
ProjectedMatchup(matchup, tid, tbl, df, teams, today) ==
    LET my_team == get_my_team(teams, tid)
        proj == get_player_projections(tbl, df, my_team.value, today, WeekEnd(today))
        lines == IF matchup.scoring_type = "H2H Category"
                 THEN LET ls == ProjectedLines(matchup.category_breakdown, proj.rows)
                      IN  ls \o <<RecordLine(ls)>>
                 ELSE << >>
    IN  IF my_team.raised # ""
        THEN [value |-> PyNone, raised |-> my_team.raised, log |-> << >>]
        ELSE IF proj.rows = << >>
        THEN [value |-> matchup, raised |-> "",
              log |-> proj.log \o <<[kind |-> "no_projections"]>>]
        ELSE [value |-> matchup @@ [projections |-> ProjectionsEntry(proj.rows)],
              raised |-> "",
              log |-> proj.log \o lines]

\* analyze_matchup(week) as a whole, answered by the mMatchup response data
\* and the mRoster response teams, run on day today:
\* [value |-> the dict or None, raised, log |-> what was printed]
analyze_matchup(tid, stype, cats, tbl, df, week, data, teams, today) ==
    LET scores == get_current_matchup_scores(tid, stype, cats, week, data)
    IN  IF scores.raised # ""
        THEN [value |-> PyNone, raised |-> scores.raised, log |-> << >>]
        ELSE IF IsNone(scores.value)
        THEN [value |-> PyNone, raised |-> "", log |-> << >>]
        ELSE ProjectedMatchup(scores.value, tid, tbl, df, teams, today)

(***************************************************************************)
(* MatchupAnalyzer.get_opponent_projections and compare_with_opponent      *)
(***************************************************************************)
\* get_opponent_projections(opponent_team_id, start_date, end_date): any
\* exception gives an empty DataFrame and a printed note
get_opponent_projections(tbl, df, teams, opponent_team_id, start_date, end_date) ==
    LET opp_team == get_my_team(teams, opponent_team_id)
    IN  IF opp_team.raised # ""
        THEN [rows |-> << >>, log |-> <<[kind |-> "no_opponent_projections"]>>]
        ELSE get_player_projections(tbl, df, opp_team.value, start_date, end_date)

FracNeg(x) == [n |-> 0 - x.n, d |-> x.d]

\* the fantasy points of a projection: PTS*1.0 + REB*1.2 + AST*1.5 + STL*3.0
\* + BLK*3.0 + 3PM*0.5 + TO*-1.0, summed over the rows, as an exact fraction
FantasyPoints(rows) ==
    Frac(10 * SumOver(rows, "PTS") + 12 * SumOver(rows, "REB")
           + 15 * SumOver(rows, "AST") + 30 * SumOver(rows, "STL")
           + 30 * SumOver(rows, "BLK") + 5 * SumOver(rows, "3PM")
           - 10 * SumOver(rows, "TO"), 10)

\* The points are doubles in the code: each row's weighted sum is formed
\* first, then the rows are added.  A fraction of the model stands for the
\* double nearest to it; the two can differ by the rounding of the products
\* and sums, which depends on how the points are spread over the rows.
\* With whole stat values every product and sum is exact unless a row has
\* REB # 0 (of the weights only 1.2 is no double).
RoundingFree(rows) == \A i \in 1..Len(rows) : rows[i]["REB"] = 0

\* both sides form the same doubles: the same stat values row by row
SamePoints(your_proj, opp_proj) ==
    /\ Len(your_proj) = Len(opp_proj)
    /\ \A i \in 1..Len(your_proj) :
        \A c \in {"PTS", "REB", "AST", "STL", "BLK", "3PM", "TO"} :
            your_proj[i][c] = opp_proj[i][c]

\* the sign of your_final - opp_final as the doubles give it: that of the
\* exact difference unless it vanishes; then 0 when nothing is rounded or
\* both sides round alike, and otherwise what the rounding leaves (rounding:
\* -1, 0 or 1)
SignOfDifference(your_final, opp_final, your_proj, opp_proj, rounding) ==
    IF FracLt(opp_final, your_final) THEN 1
    ELSE IF FracLt(your_final, opp_final) THEN -1
    ELSE IF (RoundingFree(your_proj) /\ RoundingFree(opp_proj))
            \/ SamePoints(your_proj, opp_proj)
    THEN 0
    ELSE rounding

\* matchup['comparison'] of a Points league; a difference that only the
\* rounding leaves is written sign / 2^30
ComparisonEntry(matchup, your_proj, opp_proj, rounding) ==
    LET your_proj_fpts == FantasyPoints(your_proj)
        opp_proj_fpts == FantasyPoints(opp_proj)
        your_final == FracAdd(FracOfInt(matchup.your_total_score), your_proj_fpts)
        opp_final == FracAdd(FracOfInt(matchup.opponent_total_score), opp_proj_fpts)
        difference == FracAdd(your_final, FracNeg(opp_final))
        sign == SignOfDifference(your_final, opp_final, your_proj, opp_proj,
                                 rounding)
    IN  [your_projected_fpts |-> your_proj_fpts,
         opp_projected_fpts |-> opp_proj_fpts,
         your_projected_final |-> your_final,
         opp_projected_final |-> opp_final,
         projected_differential |->
             IF difference.n = 0 /\ sign # 0 THEN [n |-> sign, d |-> 2^30]
             ELSE difference]

\* the end of compare_with_opponent going on to the comparison with an
\* empty projection
ComparisonWithoutEmptyCheck(stype, matchup, your_proj, opp_proj, rounding) ==
    IF stype = "Points"
    THEN LET comparison == ComparisonEntry(matchup, your_proj, opp_proj,
                                           rounding)
         IN  [value |-> matchup @@ [comparison |-> comparison],
              log |-> <<[kind |-> "projected_outcome",
                         likely_win |->
                             comparison.projected_differential.n > 0]>>]
    ELSE [value |-> matchup, log |-> << >>]

\* the end of compare_with_opponent, with both projections (their rows):
\* [value |-> the dict returned, log |-> what it prints]
ComparisonOf(stype, matchup, your_proj, opp_proj, rounding) ==
    IF your_proj = << >> \/ opp_proj = << >>
    THEN [value |-> matchup, log |-> <<[kind |-> "incomplete_projections"]>>]
    ELSE IF stype = "Points"
    THEN LET comparison == ComparisonEntry(matchup, your_proj, opp_proj,
                                           rounding)
         IN  [value |-> matchup @@ [comparison |-> comparison],
              log |-> <<[kind |-> "projected_outcome",
                         likely_win |->
                             comparison.projected_differential.n > 0]>>]
    ELSE [value |-> matchup, log |-> << >>]

\* compare_with_opponent(week) as a whole, answered by the mMatchup response
\* data, the mRoster response teams to the request of the own roster and the
\* mRoster response opp_teams to that of the opponent's, run on day today,
\* the doubles rounding as rounding says:
\* [value |-> the dict or None, raised, log |-> what was printed]
compare_with_opponent(tid, stype, cats, tbl, df, week, data, teams, opp_teams, today, rounding) ==
    LET scores == get_current_matchup_scores(tid, stype, cats, week, data)
        matchup == scores.value
        my_team == get_my_team(teams, tid)
        your_proj == get_player_projections(tbl, df, my_team.value, today,
                                            WeekEnd(today))
        opp_proj == get_opponent_projections(tbl, df, opp_teams,
                                             matchup.opponent_team_id, today,
                                             WeekEnd(today))
        ending == ComparisonOf(stype, matchup, your_proj.rows, opp_proj.rows,
                               rounding)
    IN  IF scores.raised # ""
        THEN [value |-> PyNone, raised |-> scores.raised, log |-> << >>]
        ELSE IF IsNone(matchup)
        THEN [value |-> PyNone, raised |-> "", log |-> << >>]
        ELSE IF my_team.raised # ""
        THEN [value |-> PyNone, raised |-> my_team.raised, log |-> << >>]
        ELSE [value |-> ending.value, raised |-> "",
              log |-> your_proj.log \o opp_proj.log \o ending.log]

(***************************************************************************)
(* ScheduleAnalyzer.__init__ and MatchupAnalyzer.__init__ on the data files *)
(***************************************************************************)
\* a data file: whether os.path.exists finds it, and the rows read_csv gives
AbsentFile == [exists |-> FALSE, rows |-> << >>]
FileOf(rows) == [exists |-> TRUE, rows |-> rows]

\* ScheduleAnalyzer(schedule_filepath):
\* [raised, schedule_df |-> the table of the new object]
ScheduleAnalyzer(schedule_file) ==
    IF ~schedule_file.exists
    THEN [raised |-> "FileNotFoundError", schedule_df |-> << >>]
    ELSE [raised |-> "", schedule_df |-> schedule_file.rows]

\* MatchupAnalyzer going on with an empty rate table when the file is absent
MatchupAnalyzerWithoutStats(schedule_file, stats_file, settings, tid) ==
    LET schedule_analyzer == ScheduleAnalyzer(schedule_file)
        league_info == get_league_info(settings)
    IN  IF schedule_analyzer.raised # ""
        THEN [raised |-> schedule_analyzer.raised, team_id |-> 0,
              schedule_df |-> << >>, player_stats |-> << >>,
              scoring_type |-> "", categories |-> Unset]
        ELSE [raised |-> "", team_id |-> tid,
              schedule_df |-> schedule_analyzer.schedule_df,
              player_stats |-> stats_file.rows,
              scoring_type |-> InitScoringType(league_info),
              categories |-> InitCategories(league_info)]

\* MatchupAnalyzer(league_id, team_id): the schedule analyzer is built
\* first, then the rate table is read, then the league is asked; an
\* exception leaves no object
MatchupAnalyzer(schedule_file, stats_file, settings, tid) ==
    LET schedule_analyzer == ScheduleAnalyzer(schedule_file)
        league_info == get_league_info(settings)
        nothing == [team_id |-> 0, schedule_df |-> << >>, player_stats |-> << >>,
                    scoring_type |-> "", categories |-> Unset]
    IN  IF schedule_analyzer.raised # ""
        THEN [raised |-> schedule_analyzer.raised] @@ nothing
        ELSE IF ~stats_file.exists
        THEN [raised |-> "FileNotFoundError"] @@ nothing
        ELSE [raised |-> "", team_id |-> tid,
              schedule_df |-> schedule_analyzer.schedule_df,
              player_stats |-> stats_file.rows,
              scoring_type |-> InitScoringType(league_info),
              categories |-> InitCategories(league_info)]

(***************************************************************************)
(* Inputs: league settings, and the mMatchup responses of the ESPN API.    *)
(***************************************************************************)
\* the stat ids of the scoring items: PTS, TO (lower wins) and FG%
StatIdsUsed == {0, 11, 19}

ScoringItems ==
    {[statId |-> i, isReverseItem |-> b] : i \in StatIdsUsed, b \in BOOLEAN}

\* scoring-item lists: distinct stat ids, in ascending order
ItemLists ==
    {s \in SeqsUpTo(ScoringItems, MaxCats) :
        \A i, j \in 1..Len(s) : i < j => s[i].statId < s[j].statId}

\* a scoring item that carries no statId
ItemWithoutStatId == [isReverseItem |-> FALSE]

LeagueSettings ==
    {[scoringSettings |-> [scoringType |-> "H2H_CATEGORY", scoringItems |-> s]] :
        s \in ItemLists \cup {<<ItemWithoutStatId>>}}
    \cup {[scoringSettings |-> [scoringType |-> "H2H_POINTS", scoringItems |-> << >>]]}

\* the analyzer's team is team 1: it is home, away, or not in the matchup
TeamPairs == {<<1, 2>>, <<2, 1>>, <<2, 3>>}

\* the keys of scoreByStat: the league's stat ids, as strings
StatKeys(cats) == {PyStr(cats[i].stat_id) : i \in 1..Len(cats)}

Side(tid, pts, stats) ==
    [teamId |-> tid, totalPoints |-> pts,
     cumulativeScore |-> [scoreByStat |-> stats]]

\* a matchup of period 1
Matchup(tp, hp, ap, hs, as) ==
    [matchupPeriodId |-> 1, home |-> Side(tp[1], hp, hs), away |-> Side(tp[2], ap, as)]

\* the score maps of one side: every value of every category
ScoreMaps(cats) == [StatKeys(cats) -> 0..MaxVal]

\* the score maps that lack some (or all) of the categories, the values of
\* the others above zero
PartialScoreMaps(cats) ==
    UNION {[K -> 1..MaxVal] : K \in SUBSET StatKeys(cats)}

\* the score maps with the same value in every category
FlatScoreMaps(cats) == {[k \in StatKeys(cats) |-> v] : v \in 0..MaxVal}

\* a matchup of the analyzer's team in another period
OtherPeriodMatchup(cats) ==
    [matchupPeriodId |-> 2,
     home |-> Side(1, MaxPts, [k \in StatKeys(cats) |-> MaxVal]),
     away |-> Side(3, 0, [k \in StatKeys(cats) |-> 0])]

\* a second matchup of the analyzer's team in period 1, against team 3
LaterMatchup(cats) ==
    [matchupPeriodId |-> 1,
     home |-> Side(3, 0, [k \in StatKeys(cats) |-> 0]),
     away |-> Side(1, MaxPts, [k \in StatKeys(cats) |-> MaxVal])]

\* a response for period 1 with the given schedule
Response(schedule) == [scoringPeriodId |-> 1, schedule |-> schedule]

\* the week argument: 0 is None (use the current period)
Weeks == {0, 1}

(***************************************************************************)
(* Inputs: the player-rate table, the schedule, rosters and dates.         *)
(***************************************************************************)
\* player names, as character codes: "Al", "AL", "Bo", "Cy"
NameAl == <<65, 108>>
NameAL == <<65, 76>>
NameBo == <<66, 111>>
NameCy == <<67, 121>>

\* per-game rates
RateA ==
    ("PTS" :> 20) @@ ("REB" :> 7) @@ ("AST" :> 5) @@ ("STL" :> 1) @@ ("BLK" :> 2)
    @@ ("3PM" :> 3) @@ ("FGM" :> 5) @@ ("FGA" :> 10) @@ ("FTM" :> 4)
    @@ ("FTA" :> 5) @@ ("TO" :> 3)
RateB ==
    ("PTS" :> 10) @@ ("REB" :> 4) @@ ("AST" :> 2) @@ ("STL" :> 2) @@ ("BLK" :> 1)
    @@ ("3PM" :> 1) @@ ("FGM" :> 2) @@ ("FGA" :> 4) @@ ("FTM" :> 1)
    @@ ("FTA" :> 4) @@ ("TO" :> 1)
RateC ==
    ("PTS" :> 6) @@ ("REB" :> 9) @@ ("AST" :> 1) @@ ("STL" :> 3) @@ ("BLK" :> 3)
    @@ ("3PM" :> 2) @@ ("FGM" :> 1) @@ ("FGA" :> 4) @@ ("FTM" :> 2)
    @@ ("FTA" :> 2) @@ ("TO" :> 2)
\* no shot attempted
RateZ ==
    ("PTS" :> 0) @@ ("REB" :> 2) @@ ("AST" :> 1) @@ ("STL" :> 1) @@ ("BLK" :> 0)
    @@ ("3PM" :> 0) @@ ("FGM" :> 0) @@ ("FGA" :> 0) @@ ("FTM" :> 0)
    @@ ("FTA" :> 0) @@ ("TO" :> 1)

RateRow(name, team, rate) == [Name |-> name, Team |-> team] @@ rate

RowAlAtl == RateRow(NameAl, "ATL", RateA)
RowAlBos == RateRow(NameAl, "BOS", RateB)
RowBoBos == RateRow(NameBo, "BOS", RateC)
RowBoAtl == RateRow(NameBo, "ATL", RateZ)

RateRows == {RowAlAtl, RowAlBos, RowBoBos, RowBoAtl}

\* a rate table on which Al and Bo of ATL together have, stat by stat, the
\* rates of Cy of BOS: the same points per game in two rows and in one
TableOfEqualPoints ==
    <<RowAlAtl, RateRow(NameBo, "ATL", RateC),
      RateRow(NameCy, "BOS", [c \in DOMAIN RateA |-> RateA[c] + RateC[c]])>>

\* the rate tables: the rows in any order, repeated or not
RateTables == SeqsUpTo(RateRows, MaxStatRows)

Game(team, day) == [Team |-> team, ParsedDate |-> day]

\* a schedule: ATL plays days 0 and 2, BOS days 0, 1 and 2, CHI day 1
ScheduleFull ==
    <<Game("ATL", 0), Game("ATL", 2), Game("BOS", 0), Game("BOS", 1),
      Game("BOS", 2), Game("CHI", 1)>>

\* a schedule with one game
ScheduleSparse == <<Game("ATL", 1)>>

Schedules == {ScheduleFull, ScheduleSparse}

\* roster entries: ESPN pro team 1 is ATL, 2 is BOS, 4 is CHI, 0 is no team
RosterEntries ==
    {[name |-> NameAL, pro_team_id |-> 1], [name |-> NameAL, pro_team_id |-> 2],
     [name |-> NameAL, pro_team_id |-> 4], [name |-> NameBo, pro_team_id |-> 1],
     [name |-> NameBo, pro_team_id |-> 0], [name |-> NameCy, pro_team_id |-> 2]}

Rosters == SeqsUpTo(RosterEntries, MaxRoster)

Days == 0..MaxDay

PointsLeague ==
    [scoringSettings |-> [scoringType |-> "H2H_POINTS", scoringItems |-> << >>]]

CategoryLeague(items) ==
    [scoringSettings |-> [scoringType |-> "H2H_CATEGORY", scoringItems |-> items]]

\* the category league of the analyses: PTS, TO (lower wins) and FG%
AnalyzeLeague ==
    CategoryLeague(<<[statId |-> 0, isReverseItem |-> FALSE],
                     [statId |-> 11, isReverseItem |-> TRUE],
                     [statId |-> 19, isReverseItem |-> FALSE]>>)

\* the roster of the calls that do not vary it
FixedRoster ==
    <<[name |-> NameAL, pro_team_id |-> 1], [name |-> NameBo, pro_team_id |-> 1]>>

(***************************************************************************)
(* Calls.                                                                  *)
(***************************************************************************)
NoCall == [op |-> "none"]

\* no concurrent caller
NoThreads == << >>

\* the outcome of get_current_matchup_scores(week) on the response data
ScoresCall(week, data) ==
    LET r == get_current_matchup_scores(team_id, scoring_type, categories,
                                        week, data)
    IN  /\ call' = [op |-> "get_current_matchup_scores",
                    week |-> week, data |-> data]
        /\ result' = r.value
        /\ raised' = r.raised
        /\ log' = << >>
        /\ pc' = "done"
        /\ UNCHANGED threads
        /\ UNCHANGED tables

\* the kinds of response to get_current_matchup_scores: no schedule, one
\* matchup of the period (every combination of scores), that matchup behind
\* a matchup of another period, a matchup whose score maps lack categories,
\* that matchup between a matchup of two other teams and a second matchup of
\* the analyzer's team
ScoresKinds == {"empty", "single", "behind", "partial", "several"}

\* the weeks asked for, and the team pairs, points and score maps of the
\* matchup, for a kind of response
ScoresInputs(kind, cats) ==
    [weeks |-> IF kind \in {"empty", "behind"} THEN Weeks ELSE {0},
     pairs |-> IF kind = "empty" THEN {<<1, 2>>}
               ELSE IF kind \in {"partial", "several"} THEN {<<1, 2>>, <<2, 1>>}
               ELSE TeamPairs,
     points |-> IF kind = "single" THEN 0..MaxPts ELSE {0},
     maps |-> IF kind = "empty" THEN {<< >>}
              ELSE IF kind = "single" THEN ScoreMaps(cats)
              ELSE IF kind \in {"behind", "several"} THEN FlatScoreMaps(cats)
              ELSE PartialScoreMaps(cats)]

\* the response of a kind
ScoresResponse(kind, cats, tp, hp, ap, hs, as) ==
    IF kind = "empty" THEN Response(<< >>)
    ELSE IF kind = "behind"
    THEN Response(<<OtherPeriodMatchup(cats), Matchup(tp, hp, ap, hs, as)>>)
    ELSE IF kind = "several"
    THEN Response(<<Matchup(<<2, 3>>, hp, ap, hs, as),
                    Matchup(tp, hp, ap, hs, as), LaterMatchup(cats)>>)
    ELSE Response(<<Matchup(tp, hp, ap, hs, as)>>)

\* a call of get_current_matchup_scores(week)
GetCurrentMatchupScores ==
    /\ pc = "idle"
    /\ \E kind \in ScoresKinds :
        LET in == ScoresInputs(kind, categories)
        IN  \E week \in in.weeks, tp \in in.pairs,
               hp \in in.points, ap \in in.points,
               hs \in in.maps, as \in in.maps :
                ScoresCall(week, ScoresResponse(kind, categories, tp, hp, ap, hs, as))

\* the caller takes the outcome; the analyzer is ready for the next call
Return ==
    /\ pc = "done"
    /\ pc' = "idle"
    /\ UNCHANGED threads
    /\ call' = NoCall
    /\ result' = PyNone
    /\ raised' = ""
    /\ log' = << >>
    /\ UNCHANGED tables

\* a call of get_player_projections(roster, start_date, end_date)
GetPlayerProjections ==
    /\ pc = "idle"
    /\ \E roster \in Rosters, start_date \in Days, end_date \in Days :
        LET r == get_player_projections(player_stats, schedule_df, roster,
                                        start_date, end_date)
        IN  /\ call' = [op |-> "get_player_projections", roster |-> roster,
                        start_date |-> start_date, end_date |-> end_date]
            /\ result' = r.rows
            /\ log' = r.log
    /\ raised' = ""
    /\ pc' = "done"
    /\ UNCHANGED threads
    /\ UNCHANGED tables

\* the roster response with the analyzer's team alone
TeamsOf(roster) == <<[id |-> 1, roster |-> roster]>>

\* the same value v for the home side and 1 for the away side, in every category
FlatMatchup(tp, v) ==
    Matchup(tp, 0, 0, [k \in StatKeys(categories) |-> v],
            [k \in StatKeys(categories) |-> 1])

\* the rosters of the analyses: the entries on ATL, on BOS or on no pro team
AnalyzeRosters ==
    SeqsUpTo({e \in RosterEntries : e.pro_team_id # 4}, MaxRoster)

\* the calls of analyze_matchup, <<week, mMatchup response, mRoster
\* response>>: with the analyzer's team at home and the current values equal
\* to the opponent's, every roster; with a fixed roster, the current values
\* below the opponent's, the team away, the matchup missing, or the roster
\* response without the team (with its matchup or without)
AnalyzeRequests ==
    {<<0, Response(<<FlatMatchup(<<1, 2>>, 1)>>), TeamsOf(roster)>> :
        roster \in AnalyzeRosters}
    \cup {<<1, data, TeamsOf(FixedRoster)>> :
              data \in {Response(<< >>), Response(<<FlatMatchup(<<2, 1>>, 0)>>),
                        Response(<<FlatMatchup(<<1, 2>>, 0)>>)}}
    \cup {<<0, data, teams>> :
              teams \in {<< >>, <<[id |-> 2, roster |-> FixedRoster]>>},
              data \in {Response(<<FlatMatchup(<<1, 2>>, 0)>>),
                        Response(<<FlatMatchup(<<2, 3>>, 0)>>)}}

\* a call of a matchup method begins: the banner is printed and the
\* mMatchup request is sent; the call waits for the response
MatchupRequested(op, week) ==
    /\ call' = [op |-> op, week |-> week]
    /\ result' = PyNone
    /\ raised' = ""
    /\ log' = << >>
    /\ pc' = "matchup_requested"
    /\ UNCHANGED threads
    /\ UNCHANGED tables

\* the mMatchup response data arrives and get_current_matchup_scores goes
\* on with self.team_id, self.scoring_type and self.categories as they are
\* now: when it raises or finds no matchup the call ends; otherwise the
\* matchup is kept (kept: the response, with the day when the method reads
\* it here) and the mRoster request for self.team_id is sent
ScoresAnswered(data, kept) ==
    LET scores == get_current_matchup_scores(team_id, scoring_type, categories,
                                             call.week, data)
    IN  /\ IF scores.raised # "" \/ IsNone(scores.value)
           THEN /\ call' = call @@ [data |-> data]
                /\ result' = PyNone
                /\ raised' = scores.raised
                /\ pc' = "done"
                /\ UNCHANGED threads
           ELSE /\ call' = call @@ kept
                        @@ [matchup |-> scores.value,
                            asked_team_id |-> team_id]
                /\ pc' = "roster_requested"
                /\ UNCHANGED threads
                /\ UNCHANGED <<result, raised>>
        /\ UNCHANGED <<log, tables>>

\* a call of analyze_matchup(week)
AnalyzeMatchup ==
    /\ pc = "idle"
    /\ \E week \in {rq[1] : rq \in AnalyzeRequests} :
        MatchupRequested("analyze_matchup", week)

\* the mMatchup response of analyze_matchup arrives
AnalyzeScoresAnswered ==
    /\ pc = "matchup_requested"
    /\ call.op = "analyze_matchup"
    /\ \E data \in {rq[2] : rq \in {r \in AnalyzeRequests : r[1] = call.week}} :
        ScoresAnswered(data, [data |-> data])

\* the mRoster response of analyze_matchup arrives, on day today: get_my_team
\* raises, or the roster is projected from self.player_stats and
\* self.schedule_df as they are now, and the call ends
AnalyzeRosterAnswered ==
    /\ pc = "roster_requested"
    /\ call.op = "analyze_matchup"
    /\ \E today \in Days,
          teams \in {rq[3] : rq \in {r \in AnalyzeRequests :
                                        r[1] = call.week /\ r[2] = call.data}} :
        LET r == ProjectedMatchup(call.matchup, call.asked_team_id,
                                  player_stats, schedule_df, teams, today)
        IN  /\ call' = IF r.raised # "" THEN call @@ [teams |-> teams]
                       ELSE call @@ [teams |-> teams, today |-> today]
            /\ result' = r.value
            /\ raised' = r.raised
            /\ log' = r.log
    /\ pc' = "done"
    /\ UNCHANGED threads
    /\ UNCHANGED tables

\* the mRoster responses to the request of the own roster: no team, or the
\* analyzer's team alone
CompareOwnTeams ==
    {<< >>} \cup {<<[id |-> 1, roster |-> r]>> : r \in {<< >>, FixedRoster}}

\* the mRoster responses to the request of the opponent's roster: without
\* the opponent, or with the opponent (team 2) behind the analyzer's team
CompareTeams ==
    CompareOwnTeams
    \cup {<<[id |-> 1, roster |-> FixedRoster], [id |-> 2, roster |-> r]>> :
             r \in SeqsUpTo({e \in RosterEntries : e.pro_team_id = 2}, MaxRoster)}

\* a call of compare_with_opponent(week)
CompareWithOpponent ==
    /\ pc = "idle"
    /\ \E week \in Weeks : MatchupRequested("compare_with_opponent", week)

\* the mMatchup response of compare_with_opponent arrives, on day today: the
\* schedule empty, without a matchup of the analyzer's team, or with its
\* matchup (home or away)
CompareScoresAnswered ==
    /\ pc = "matchup_requested"
    /\ call.op = "compare_with_opponent"
    /\ \E today \in Days,
          data \in {Response(<< >>), Response(<<FlatMatchup(<<2, 3>>, 0)>>),
                    Response(<<FlatMatchup(<<1, 2>>, 0)>>),
                    Response(<<FlatMatchup(<<2, 1>>, 0)>>)} :
        ScoresAnswered(data, [data |-> data, today |-> today])

\* the mRoster response to the request of the own roster arrives:
\* get_my_team raises, or the roster is projected (with its warnings
\* printed) and get_opponent_projections sends the mRoster request for the
\* opponent
CompareRosterAnswered ==
    /\ pc = "roster_requested"
    /\ call.op = "compare_with_opponent"
    /\ \E teams \in CompareOwnTeams :
        LET my_team == get_my_team(teams, call.asked_team_id)
            your_proj == get_player_projections(player_stats, schedule_df,
                             my_team.value, call.today, WeekEnd(call.today))
        IN  IF my_team.raised # ""
            THEN /\ call' = call @@ [teams |-> teams]
                 /\ raised' = my_team.raised
                 /\ pc' = "done"
                 /\ UNCHANGED threads
                 /\ UNCHANGED log
            ELSE /\ call' = call @@ [teams |-> teams,
                                     your_proj |-> your_proj.rows]
                 /\ log' = your_proj.log
                 /\ pc' = "opponent_requested"
                 /\ UNCHANGED threads
                 /\ UNCHANGED raised
    /\ UNCHANGED <<result, tables>>

\* the mRoster response to the request of the opponent's roster arrives:
\* the opponent is projected, or the note is printed, and the call ends with
\* the comparison
CompareOpponentAnswered ==
    /\ pc = "opponent_requested"
    /\ call.op = "compare_with_opponent"
    /\ \E opp_teams \in CompareTeams, rounding \in {-1, 0, 1} :
        LET opp_proj == get_opponent_projections(player_stats, schedule_df,
                            opp_teams, call.matchup.opponent_team_id,
                            call.today, WeekEnd(call.today))
            ending == ComparisonOf(scoring_type, call.matchup, call.your_proj,
                                   opp_proj.rows, rounding)
        IN  /\ call' = call @@ [opponent_teams |-> opp_teams]
            /\ result' = ending.value
            /\ log' = log \o opp_proj.log \o ending.log
    /\ pc' = "done"
    /\ UNCHANGED threads
    /\ UNCHANGED <<raised, tables>>

\* the dates of the schedule queries: Monday, Tuesday and Sunday of the
\* first week, Monday and Tuesday of the second, Tuesday of the third
ScheduleDates == {0, 1, 6, 7, 8, 15}

\* the schedule tables of the queries: games of ATL and BOS in any order
GameRows == {Game(t, d) : t \in {"ATL", "BOS"}, d \in ScheduleDates}
ScheduleTables == SeqsUpTo(GameRows, MaxGames)

\* the team arguments: lower case, upper case, and a team without games
QueryTeams == {"atl", "BOS", "CHI"}

\* what a schedule query leaves behind
ScheduleQuery(c, value, printed) ==
    /\ pc = "idle"
    /\ call' = c
    /\ result' = value
    /\ log' = printed
    /\ raised' = ""
    /\ pc' = "done"
    /\ UNCHANGED threads
    /\ schedule_df' = TableAfterQuery(schedule_df)
    /\ UNCHANGED <<team_id, scoring_type, categories, player_stats>>

GetGamesInDateRange ==
    \E team \in QueryTeams, start_date \in ScheduleDates, end_date \in ScheduleDates :
        ScheduleQuery([op |-> "get_games_in_date_range", team |-> team,
                       start_date |-> start_date, end_date |-> end_date],
                      get_games_in_date_range(schedule_df, team, start_date, end_date),
                      << >>)

GetGameCountInRange ==
    \E team \in QueryTeams, start_date \in ScheduleDates, end_date \in ScheduleDates :
        ScheduleQuery([op |-> "get_game_count_in_range", team |-> team,
                       start_date |-> start_date, end_date |-> end_date],
                      get_game_count_in_range(schedule_df, team, start_date, end_date),
                      << >>)

GetTeamsPlayingOn ==
    \E date \in ScheduleDates :
        ScheduleQuery([op |-> "get_teams_playing_on", date |-> date],
                      get_teams_playing_on(schedule_df, date), << >>)

CalculateWeeklyGameCounts ==
    \E week_start_date \in ScheduleDates :
        LET r == calculate_weekly_game_counts(schedule_df, week_start_date)
        IN  ScheduleQuery([op |-> "calculate_weekly_game_counts",
                           week_start_date |-> week_start_date],
                          r.value, r.log)

\* get_all_weekly_breakdowns(): on a table without rows min() is NaT, whose
\* dayofweek is NaN, and timedelta(days=NaN) raises ValueError
GetAllWeeklyBreakdowns ==
    /\ pc = "idle"
    /\ call' = [op |-> "get_all_weekly_breakdowns"]
    /\ result' = IF schedule_df = << >> THEN PyNone
                 ELSE get_all_weekly_breakdowns(schedule_df)
    /\ raised' = IF schedule_df = << >> THEN "ValueError" ELSE ""
    /\ log' = << >>
    /\ pc' = "done"
    /\ UNCHANGED threads
    /\ schedule_df' = TableAfterQuery(schedule_df)
    /\ UNCHANGED <<team_id, scoring_type, categories, player_stats>>

\* DATE cells: four consecutive days over the turn of the year, a day of
\* October, and a day that no month of 2025 has
PageDates ==
    {[mon |-> "Dec", day |-> 30], [mon |-> "Dec", day |-> 31],
     [mon |-> "Jan", day |-> 1], [mon |-> "Jan", day |-> 2],
     [mon |-> "Oct", day |-> 22], [mon |-> "Feb", day |-> 29]}

\* OPPONENT cells: "@Orlando" and "vsToronto"
PageOpponents ==
    {[prefix |-> "@", name |-> "Orlando"], [prefix |-> "vs", name |-> "Toronto"]}

\* the rows of a page: any dates in any order, the opponents alternating
PageRows ==
    {[DATE |-> d, OPPONENT |-> o] : d \in PageDates, o \in PageOpponents}
Pages ==
    {p \in SeqsUpTo(PageRows, MaxPageRows) :
        \A i \in 1..Len(p) :
            p[i].OPPONENT.prefix = IF i % 2 = 1 THEN "@" ELSE "vs"}

\* _enhance_schedule on the rows of a team page
EnhanceSchedule ==
    /\ pc = "idle"
    /\ \E page \in Pages, team_abbr \in {"ATL"} :
        /\ call' = [op |-> "_enhance_schedule", df |-> page, team_abbr |-> team_abbr]
        /\ result' = enhance_schedule(page, team_abbr)
    /\ raised' = ""
    /\ log' = << >>
    /\ pc' = "done"
    /\ UNCHANGED threads
    /\ UNCHANGED tables

\* MatchupAnalyzer(league_id, team_id): the league configuration is one of
\* settings, the rate table one of rate_tables, the schedule one of schedules
InitWith(settings_set, rate_tables, schedules) ==
    /\ team_id = 1
    /\ \E settings \in settings_set :
        LET league_info == get_league_info(settings)
        IN  /\ scoring_type = InitScoringType(league_info)
            /\ categories = InitCategories(league_info)
    /\ player_stats \in rate_tables
    /\ schedule_df \in schedules
    /\ pc = "idle"
    /\ call = NoCall
    /\ result = PyNone
    /\ raised = ""
    /\ log = << >>
    /\ threads = NoThreads

\* every league configuration; the tables play no part
InitScores == InitWith(LeagueSettings, {<< >>}, {<< >>})
NextScores == GetCurrentMatchupScores \/ Return
SpecScores == InitScores /\ [][NextScores]_vars

\* every rate table and schedule; the league plays no part
InitProj == InitWith({PointsLeague}, RateTables, Schedules)
NextProj == GetPlayerProjections \/ Return
SpecProj == InitProj /\ [][NextProj]_vars

\* the projections on the tables whose records are of a roster entry's
\* pro team, of another team only, ambiguous, or absent
RosterTables ==
    {<<RowAlBos, RowBoBos>>, <<RowAlAtl, RowBoAtl>>, <<RowAlAtl, RowAlBos>>,
     <<RowBoBos>>, << >>}
InitRoster == InitWith({PointsLeague}, RosterTables, Schedules)
NextRoster == GetPlayerProjections \/ Return
SpecRoster == InitRoster /\ [][NextRoster]_vars

\* a category league with every rate table, or a points league
InitAnalyze ==
    \/ InitWith({AnalyzeLeague}, RateTables, {ScheduleFull})
    \/ InitWith({PointsLeague}, {<<RowAlAtl, RowBoBos>>}, {ScheduleFull})
NextAnalyze ==
    \/ AnalyzeMatchup
    \/ AnalyzeScoresAnswered
    \/ AnalyzeRosterAnswered
    \/ Return
SpecAnalyze == InitAnalyze /\ [][NextAnalyze]_vars

\* the schedule queries on every schedule table
InitSchedule == InitWith({PointsLeague}, {<< >>}, ScheduleTables)
NextSchedule ==
    \/ GetGamesInDateRange
    \/ GetGameCountInRange
    \/ GetTeamsPlayingOn
    \/ CalculateWeeklyGameCounts
    \/ GetAllWeeklyBreakdowns
    \/ Return
SpecSchedule == InitSchedule /\ [][NextSchedule]_vars

\* the scraper's load of a team page
InitEnhance == InitWith({PointsLeague}, {<< >>}, {<< >>})
NextEnhance == EnhanceSchedule \/ Return
SpecEnhance == InitEnhance /\ [][NextEnhance]_vars

\* a schedule given out of date order
ScheduleUnsorted == <<Game("BOS", 7), Game("ATL", 1), Game("ATL", 0)>>

(***************************************************************************)
(* The queries called by concurrent callers.  A call goes statement by     *)
(* statement, and between two of its statements the other caller may run   *)
(* any of its own; each statement reads self.schedule_df and               *)
(* self.player_stats as they are when it runs.                             *)
(***************************************************************************)
Callers == {"a", "b"}

\* the arguments of a call; an operation reads only its own
NoArgs ==
    [op |-> "none", team |-> "", start_date |-> 0, end_date |-> 0,
     date |-> 0, week_start_date |-> 0, roster |-> << >>]

\* the calls of the callers
QueryRequests ==
    {[NoArgs EXCEPT !.op = o, !.team = t, !.start_date = 0, !.end_date = 7] :
        o \in {"get_games_in_date_range", "get_game_count_in_range"},
        t \in {"atl", "BOS"}}
    \cup {[NoArgs EXCEPT !.op = "get_teams_playing_on", !.date = 1],
          [NoArgs EXCEPT !.op = "calculate_weekly_game_counts",
                         !.week_start_date = 1],
          [NoArgs EXCEPT !.op = "get_all_weekly_breakdowns"],
          [NoArgs EXCEPT !.op = "get_player_projections", !.start_date = 0,
                         !.end_date = 2, !.roster = FixedRoster]}

\* a caller between two calls
IdleThread ==
    [pc |-> "idle", call |-> NoArgs, local |-> << >>, acc |-> << >>,
     log |-> << >>, result |-> PyNone, raised |-> ""]

\* mask = (...): one boolean for each row of the table
MaskOf(c, df) ==
    [i \in 1..Len(df) |->
        IF c.op \in {"get_games_in_date_range", "get_game_count_in_range"}
        THEN InRange(df[i], c.team, c.start_date, c.end_date)
        ELSE IF c.op = "get_teams_playing_on"
        THEN df[i].ParsedDate = c.date
        ELSE /\ df[i].ParsedDate >= WeekStart(c.week_start_date)
             /\ df[i].ParsedDate <= WeekStart(c.week_start_date) + 6]

RECURSIVE Selected(_, _)
\* self.schedule_df[mask]: the rows of the table where the mask holds
Selected(df, mask) ==
    IF df = << >> \/ mask = << >> THEN << >>
    ELSE IF mask[Len(mask)] /\ Len(mask) <= Len(df)
    THEN Append(Selected(df, SubSeq(mask, 1, Len(mask) - 1)), df[Len(mask)])
    ELSE Selected(df, SubSeq(mask, 1, Len(mask) - 1))

\* team_counts of one week: groupby('Team').size().to_dict()
TeamCounts(week_games) ==
    [t \in TeamsIn(week_games) |->
        Len(SelectSeq(week_games, LAMBDA row : row.Team = t))]

\* pd.DataFrame(weeks_data) with fillna(0): every week has a count for every
\* team that some week has
FilledWeeks(weeks_data) ==
    LET team_columns == UNION {DOMAIN weeks_data[w].counts :
                                  w \in 1..Len(weeks_data)}
    IN  [w \in 1..Len(weeks_data) |->
            [weeks_data[w] EXCEPT
                !.counts = [t \in team_columns |->
                               IF t \in DOMAIN weeks_data[w].counts
                               THEN weeks_data[w].counts[t] ELSE 0]]]

\* the thread after the next statement of its call, the tables being tbl
\* (self.player_stats) and df (self.schedule_df) when the statement runs:
\* the mask queries form the mask and then select with it;
\* get_all_weekly_breakdowns reads the first and last date and then one
\* week at each turn of its loop; get_player_projections takes one roster
\* entry at each turn of its loop
StepOf(th, tbl, df) ==
    LET c == th.call
    IN  IF c.op = "get_all_weekly_breakdowns"
        THEN IF th.pc = "called"
             THEN IF df = << >>
                  THEN [th EXCEPT !.pc = "done", !.raised = "ValueError"]
                  ELSE [th EXCEPT !.pc = "looping",
                           !.local = [current_monday |->
                                          MinDate(df) - DayOfWeek(MinDate(df)),
                                      max_date |-> MaxDate(df)]]
             ELSE IF th.local.current_monday <= th.local.max_date
             THEN LET current_monday == th.local.current_monday
                      week_games == WeekGames(df, current_monday,
                                              current_monday + 6)
                  IN  [th EXCEPT
                          !.acc = Append(th.acc,
                                     [Week |-> Len(th.acc) + 1,
                                      WeekStart |-> current_monday,
                                      WeekEnd |-> current_monday + 6,
                                      counts |-> TeamCounts(week_games)]),
                          !.local.current_monday = current_monday + 7]
             ELSE [th EXCEPT !.pc = "done", !.result = FilledWeeks(th.acc)]
        ELSE IF c.op = "get_player_projections"
        THEN IF th.pc = "called"
             THEN [th EXCEPT !.pc = "looping", !.local = 1]
             ELSE IF th.local <= Len(c.roster)
             THEN LET one == get_player_projections(tbl, df,
                                 <<c.roster[th.local]>>, c.start_date,
                                 c.end_date)
                  IN  [th EXCEPT !.acc = th.acc \o one.rows,
                                 !.log = th.log \o one.log,
                                 !.local = th.local + 1]
             ELSE [th EXCEPT !.pc = "done", !.result = th.acc]
        ELSE IF th.pc = "called"
        THEN [th EXCEPT !.pc = "masked", !.local = MaskOf(c, df)]
        ELSE LET games == Selected(df, th.local)
             IN  IF c.op = "get_games_in_date_range"
                 THEN [th EXCEPT !.pc = "done", !.result = SortByDate(games)]
                 ELSE IF c.op = "get_game_count_in_range"
                 THEN [th EXCEPT !.pc = "done",
                                 !.result = Len(SortByDate(games))]
                 ELSE IF c.op = "get_teams_playing_on"
                 THEN [th EXCEPT !.pc = "done",
                          !.result = get_teams_playing_on(games, c.date)]
                 ELSE LET counted == calculate_weekly_game_counts(
                                         games, c.week_start_date)
                      IN  [th EXCEPT !.pc = "done",
                                     !.result = counted.value,
                                     !.log = counted.log]

\* the statement calls sort_values on rows taken from the schedule table:
\* the last statement of get_games_in_date_range, also when
\* get_game_count_in_range or get_player_projections (for a player it has
\* found) calls it
SortsGames(th, tbl) ==
    \/ /\ th.call.op \in {"get_games_in_date_range", "get_game_count_in_range"}
       /\ th.pc = "masked"
    \/ /\ th.call.op = "get_player_projections"
       /\ th.pc = "looping"
       /\ th.local <= Len(th.call.roster)
       /\ LookupPlayer(tbl, th.call.roster[th.local].name,
                       map_espn_team_to_abbr(
                           th.call.roster[th.local].pro_team_id)).found

\* a caller calls one of the queries
CallQuery ==
    \E c \in Callers, request \in QueryRequests :
        /\ threads[c].pc = "idle"
        /\ threads' = [threads EXCEPT
                          ![c] = [IdleThread EXCEPT !.pc = "called",
                                                    !.call = request]]
        /\ UNCHANGED <<tables, pc, call, result, raised, log>>

\* a caller runs the next statement of its call
StepQuery ==
    \E c \in Callers :
        /\ threads[c].pc \in {"called", "masked", "looping"}
        /\ threads' = [threads EXCEPT
                          ![c] = StepOf(threads[c], player_stats, schedule_df)]
        /\ schedule_df' = IF SortsGames(threads[c], player_stats)
                          THEN TableAfterQuery(schedule_df) ELSE schedule_df
        /\ UNCHANGED <<team_id, scoring_type, categories, player_stats,
                       pc, call, result, raised, log>>

\* a caller takes the answer of its call
ReturnQuery ==
    \E c \in Callers :
        /\ threads[c].pc = "done"
        /\ threads' = [threads EXCEPT ![c] = IdleThread]
        /\ UNCHANGED <<tables, pc, call, result, raised, log>>

\* two callers on the loaded tables: the schedules in and out of date order,
\* with one game, and without any
InitInterleaved ==
    /\ team_id = 1
    /\ scoring_type = "Points"
    /\ categories = Unset
    /\ player_stats = <<RowAlAtl, RowBoBos>>
    /\ schedule_df \in {ScheduleFull, ScheduleSparse, ScheduleUnsorted, << >>}
    /\ pc = "idle"
    /\ call = NoCall
    /\ result = PyNone
    /\ raised = ""
    /\ log = << >>
    /\ threads = [c \in Callers |-> IdleThread]
NextInterleaved == CallQuery \/ StepQuery \/ ReturnQuery
SpecInterleaved == InitInterleaved /\ [][NextInterleaved]_vars

\* the data files of a start: absent, with a header alone, or with rows
ScheduleFiles == {AbsentFile, FileOf(<< >>), FileOf(ScheduleFull), FileOf(ScheduleSparse)}
StatsFiles == {AbsentFile, FileOf(<< >>), FileOf(<<RowAlAtl, RowBoBos>>)}

\* what a constructor leaves behind: the object, or the exception alone
Constructed(c, r) ==
    /\ pc = "new"
    /\ call' = c
    /\ raised' = r.raised
    /\ pc' = IF r.raised = "" THEN "idle" ELSE "failed"
    /\ UNCHANGED threads
    /\ team_id' = r.team_id
    /\ schedule_df' = r.schedule_df
    /\ player_stats' = r.player_stats
    /\ scoring_type' = r.scoring_type
    /\ categories' = r.categories
    /\ UNCHANGED <<result, log>>

\* ScheduleAnalyzer(schedule_filepath), used on its own
NewScheduleAnalyzer ==
    \E schedule_file \in ScheduleFiles :
        LET r == ScheduleAnalyzer(schedule_file)
        IN  Constructed([op |-> "ScheduleAnalyzer", schedule_file |-> schedule_file,
                         stats_file |-> FileOf(<< >>)],
                        [raised |-> r.raised, team_id |-> 0,
                         schedule_df |-> r.schedule_df, player_stats |-> << >>,
                         scoring_type |-> "", categories |-> Unset])

\* MatchupAnalyzer(league_id, team_id)
NewMatchupAnalyzer ==
    \E schedule_file \in ScheduleFiles, stats_file \in StatsFiles,
       settings \in {PointsLeague, AnalyzeLeague} :
        Constructed([op |-> "MatchupAnalyzer", schedule_file |-> schedule_file,
                     stats_file |-> stats_file],
                    MatchupAnalyzer(schedule_file, stats_file, settings, 1))

\* get_player_projections is a method of a MatchupAnalyzer
ProjectionsOfMatchupAnalyzer == team_id # 0 /\ GetPlayerProjections

\* analyze_matchup is a method of a MatchupAnalyzer
AnalysisOfMatchupAnalyzer == team_id # 0 /\ AnalyzeMatchup

\* before any constructor has run
InitLoad ==
    /\ team_id = 0
    /\ scoring_type = ""
    /\ categories = Unset
    /\ player_stats = << >>
    /\ schedule_df = << >>
    /\ pc = "new"
    /\ call = NoCall
    /\ result = PyNone
    /\ raised = ""
    /\ log = << >>
    /\ threads = NoThreads
NextLoad ==
    \/ NewScheduleAnalyzer
    \/ NewMatchupAnalyzer
    \/ GetGamesInDateRange
    \/ GetTeamsPlayingOn
    \/ ProjectionsOfMatchupAnalyzer
    \/ AnalysisOfMatchupAnalyzer
    \/ AnalyzeScoresAnswered
    \/ AnalyzeRosterAnswered
    \/ Return
SpecLoad == InitLoad /\ [][NextLoad]_vars

(***************************************************************************)
(* ESPNStatsScraper.get_all_players_paginated and                          *)
(* ESPNMultiStatsScraper.scrape_category                                   *)
(***************************************************************************)
\* a cell that a frame holds for a row one of its two halves does not have
Missing == << >>

\* the n rows with cells found in the name table of a page, and in its
\* statistics table: a row is labelled by its page and its position
PlayersData(page, n) == [i \in 1..n |-> <<page, i>>]
StatsData(page, n) == [i \in 1..n |-> <<page, i>>]

\* what the site answers to the request of a page: an error (the request,
\* raise_for_status or the parse raises), or a document with some tables of
\* class Table whose first two hold the name rows and the statistics rows
PageAnswers(page) ==
    {[kind |-> "error", tables |-> 0,
      players_data |-> << >>, stats_data |-> << >>]}
    \cup {[kind |-> "html", tables |-> t,
           players_data |-> << >>, stats_data |-> << >>] : t \in {0, 1}}
    \cup {[kind |-> "html", tables |-> 2,
           players_data |-> PlayersData(page, n),
           stats_data |-> StatsData(page, m)] :
             n \in 0..MaxScrapeRows, m \in {0, MaxScrapeRows}}

\* page_df = pd.concat([name_df, stats_df], axis=1): the rows side by side,
\* the shorter half filled with missing cells
page_df(players_data, stats_data) ==
    LET rows == IF Len(players_data) >= Len(stats_data)
                THEN Len(players_data) ELSE Len(stats_data)
    IN  [i \in 1..rows |->
            [Name |-> IF i <= Len(players_data) THEN players_data[i]
                      ELSE Missing,
             PTS |-> IF i <= Len(stats_data) THEN stats_data[i]
                     ELSE Missing]]

\* a turn of the loop giving up what it has when the page fails
ScrapePageAllOrNothing(answer, page, all_data, notes, quiet) ==
    IF answer.kind = "error"
    THEN [all_data |-> << >>, scraped |-> FALSE,
          log |-> Append(notes, [kind |-> "error", page |-> page])]
    ELSE IF answer.tables < 2
    THEN [all_data |-> << >>, scraped |-> FALSE,
          log |-> Append(notes, [kind |-> "no_more_data", page |-> page])]
    ELSE IF answer.players_data # << >> /\ answer.stats_data # << >>
    THEN LET frame == page_df(answer.players_data, answer.stats_data)
         IN  [all_data |-> all_data \o frame, scraped |-> TRUE,
              log |-> Append(notes, [kind |-> "scraped", page |-> page,
                                     players |-> Len(frame)])]
    ELSE [all_data |-> << >>, scraped |-> FALSE,
          log |-> IF quiet THEN notes
                  ELSE Append(notes, [kind |-> "no_valid_data",
                                      page |-> page])]

\* a turn of the loop of both scrapers once the request of the page is
\* answered (notes: what is printed so far, the announcement of the page
\* included): an error, fewer than two tables, or no rows in one of the two
\* tables end the loop; otherwise the frame of the page joins all_data
\* (scraped) and the loop goes on after the sleep.  all_data is kept as the
\* rows of its frames, in order.  scrape_category prints nothing when a page
\* has no rows (quiet).
ScrapePage(answer, page, all_data, notes, quiet) ==
    IF answer.kind = "error"
    THEN [all_data |-> all_data, scraped |-> FALSE,
          log |-> Append(notes, [kind |-> "error", page |-> page])]
    ELSE IF answer.tables < 2
    THEN [all_data |-> all_data, scraped |-> FALSE,
          log |-> Append(notes, [kind |-> "no_more_data", page |-> page])]
    ELSE IF answer.players_data # << >> /\ answer.stats_data # << >>
    THEN LET frame == page_df(answer.players_data, answer.stats_data)
         IN  [all_data |-> all_data \o frame, scraped |-> TRUE,
              log |-> Append(notes, [kind |-> "scraped", page |-> page,
                                     players |-> Len(frame)])]
    ELSE [all_data |-> all_data, scraped |-> FALSE,
          log |-> IF quiet THEN notes
                  ELSE Append(notes, [kind |-> "no_valid_data",
                                      page |-> page])]

RECURSIVE ScrapePages(_, _, _, _, _, _)
\* the loop of both scrapers from page `page` on, site[p] being the answer
\* to the request of page p: each page is announced, requested and taken
\* as ScrapePage says
ScrapePages(site, max_pages, page, all_data, notes, quiet) ==
    IF page > max_pages THEN [all_data |-> all_data, log |-> notes]
    ELSE
        LET turn == ScrapePage(site[page], page, all_data,
                               Append(notes, [kind |-> "page", page |-> page]),
                               quiet)
        IN  IF turn.scraped
            THEN ScrapePages(site, max_pages, page + 1, turn.all_data,
                             turn.log, quiet)
            ELSE [all_data |-> turn.all_data, log |-> turn.log]

\* after the loop: pd.concat(all_data, ignore_index=True) when a page was
\* scraped, None otherwise
Combined(scraped) ==
    IF scraped.all_data # << >>
    THEN [value |-> scraped.all_data,
          log |-> Append(scraped.log,
                         [kind |-> "total",
                          players |-> Len(scraped.all_data)])]
    ELSE [value |-> PyNone, log |-> scraped.log]

\* ESPNStatsScraper.get_all_players_paginated(max_pages) as a whole, on the
\* answers to its requests
get_all_players_paginated(site, max_pages) ==
    Combined(ScrapePages(site, max_pages, 1, << >>, << >>, FALSE))

\* self.stat_categories of ESPNMultiStatsScraper
stat_categories ==
    {"general", "offense", "defense", "shooting", "rebounds", "scoring"}

\* ESPNMultiStatsScraper.scrape_category(category, max_pages) as a whole;
\* site is what the pages of the category answer
scrape_category(site, category, max_pages) ==
    IF category \notin stat_categories
    THEN [value |-> PyNone,
          log |-> <<[kind |-> "unknown_category", category |-> category]>>]
    ELSE Combined(ScrapePages(site, max_pages, 1, << >>,
                      <<[kind |-> "category", category |-> category]>>,
                      TRUE))

\* the loop is over: the frames are combined and the call returns
ScrapeEnds(all_data, notes) ==
    /\ result' = Combined([all_data |-> all_data, log |-> notes]).value
    /\ log' = Combined([all_data |-> all_data, log |-> notes]).log
    /\ pc' = "done"
    /\ UNCHANGED threads

\* a scraper enters its loop, notes being printed before it: the first page
\* is announced and requested, and the call waits for the answer; with
\* max_pages = 0 the loop has no turn.  call.site keeps the answers
\* received, call.page and call.all_data are the locals of the loop.
BeginScrape(op, category, max_pages, notes) ==
    /\ call' = [op |-> op, category |-> category, max_pages |-> max_pages,
                site |-> << >>, page |-> 1, all_data |-> << >>]
    /\ raised' = ""
    /\ IF max_pages = 0
       THEN ScrapeEnds(<< >>, notes)
       ELSE /\ log' = Append(notes, [kind |-> "page", page |-> 1])
            /\ result' = PyNone
            /\ pc' = "page_requested"
            /\ UNCHANGED threads
    /\ UNCHANGED tables

\* a call of get_all_players_paginated(max_pages)
GetAllPlayersPaginated ==
    /\ pc = "idle"
    /\ \E max_pages \in 0..MaxScrapePages :
        BeginScrape("get_all_players_paginated", "", max_pages, << >>)

\* a call of scrape_category(category, max_pages), "salary" being a category
\* the scraper does not know: it returns at once
ScrapeCategory ==
    /\ pc = "idle"
    /\ \E category \in {"general", "shooting", "salary"},
          max_pages \in 0..MaxScrapePages :
        IF category \notin stat_categories
        THEN /\ call' = [op |-> "scrape_category", category |-> category,
                         max_pages |-> max_pages, site |-> << >>,
                         page |-> 1, all_data |-> << >>]
             /\ result' = PyNone
             /\ raised' = ""
             /\ log' = <<[kind |-> "unknown_category", category |-> category]>>
             /\ pc' = "done"
             /\ UNCHANGED threads
             /\ UNCHANGED tables
        ELSE BeginScrape("scrape_category", category, max_pages,
                         <<[kind |-> "category", category |-> category]>>)

\* requests.get of the page returns or raises: the outcome of the page is
\* printed; after a scraped page the call sleeps, otherwise the loop ends
PageAnswered ==
    /\ pc = "page_requested"
    /\ \E answer \in PageAnswers(call.page) :
        LET turn == ScrapePage(answer, call.page, call.all_data, log,
                               call.op = "scrape_category")
        IN  /\ call' = [call EXCEPT !.site = Append(@, answer),
                                    !.all_data = turn.all_data]
            /\ IF turn.scraped
               THEN /\ log' = turn.log
                    /\ pc' = "sleeping"
                    /\ UNCHANGED threads
                    /\ UNCHANGED result
               ELSE ScrapeEnds(turn.all_data, turn.log)
    /\ UNCHANGED <<raised, tables>>

\* time.sleep(1) returns: the next page is announced and requested, or the
\* loop is over
Slept ==
    /\ pc = "sleeping"
    /\ IF call.page < call.max_pages
       THEN /\ call' = [call EXCEPT !.page = @ + 1]
            /\ log' = Append(log, [kind |-> "page", page |-> call.page + 1])
            /\ pc' = "page_requested"
            /\ UNCHANGED threads
            /\ UNCHANGED result
       ELSE /\ ScrapeEnds(call.all_data, log)
            /\ UNCHANGED call
    /\ UNCHANGED <<raised, tables>>

\* the two paginated scrapers
InitScrape == InitWith({PointsLeague}, {<< >>}, {<< >>})
NextScrape ==
    \/ GetAllPlayersPaginated
    \/ ScrapeCategory
    \/ PageAnswered
    \/ Slept
    \/ Return
SpecScrape == InitScrape /\ [][NextScrape]_vars

\* all operations
Init ==
    InitWith({AnalyzeLeague, PointsLeague},
             {<<RowAlAtl, RowAlBos>>, TableOfEqualPoints}, {ScheduleFull})
Next ==
    \/ GetCurrentMatchupScores
    \/ GetPlayerProjections
    \/ AnalyzeMatchup
    \/ AnalyzeScoresAnswered
    \/ AnalyzeRosterAnswered
    \/ CompareWithOpponent
    \/ CompareScoresAnswered
    \/ CompareRosterAnswered
    \/ CompareOpponentAnswered
    \/ Return
Spec == Init /\ [][Next]_vars

(***************************************************************************)
(* Properties.                                                             *)
(***************************************************************************)
\* a call of get_current_matchup_scores has returned an H2H Category dict
ScoresDone ==
    /\ pc = "done"
    /\ call.op = "get_current_matchup_scores"
    /\ raised = ""
    /\ ~IsNone(result)
    /\ result.scoring_type = "H2H Category"

\* the matchup of the response that has the analyzer's team, and its sides
CalledMatchup ==
    LET sch == call.data.schedule
        mine == {i \in 1..Len(sch) :
                    /\ sch[i].matchupPeriodId = call.data.scoringPeriodId
                    /\ team_id \in {sch[i].home.teamId, sch[i].away.teamId}}
    IN  sch[CHOOSE i \in mine : \A j \in mine : i <= j]
CalledYours ==
    IF CalledMatchup.home.teamId = team_id
    THEN CalledMatchup.home ELSE CalledMatchup.away
CalledOpp ==
    IF CalledMatchup.home.teamId = team_id
    THEN CalledMatchup.away ELSE CalledMatchup.home

\* C1: in every result of get_current_matchup_scores, each category's winner
\* follows its orientation: in a negative category YOU wins with the lower
\* value and OPP when the opponent's is lower, otherwise YOU wins with the
\* higher value and OPP when the opponent's is higher; equal values are a TIE.
C1_WinnerByOrientation ==
    ScoresDone =>
        \A i \in 1..Len(result.category_breakdown) :
            LET e == result.category_breakdown[i]
                y == e.your_score
                o == e.opp_score
            IN  /\ e.is_negative = categories[i].is_negative
                /\ e.is_negative =>
                     /\ (y < o) = (e.winner = "YOU")
                     /\ (o < y) = (e.winner = "OPP")
                     /\ (y = o) = (e.winner = "TIE")
                /\ ~e.is_negative =>
                     /\ (y > o) = (e.winner = "YOU")
                     /\ (o > y) = (e.winner = "OPP")
                     /\ (y = o) = (e.winner = "TIE")

\* C1 witness: one result where the higher value loses a negative category
\* and wins a non-negative one
C1_Witness ==
    /\ ScoresDone
    /\ \E i, j \in 1..Len(result.category_breakdown) :
        LET a == result.category_breakdown[i]
            b == result.category_breakdown[j]
        IN  /\ a.is_negative /\ a.your_score = MaxVal /\ a.opp_score = MaxVal - 1
            /\ a.winner = "OPP"
            /\ ~b.is_negative /\ b.your_score = MaxVal /\ b.opp_score = MaxVal - 1
            /\ b.winner = "YOU"

\* the locally computed counts: the categories of the result won by each side
LocalCount(who) ==
    Cardinality({i \in 1..Len(result.category_breakdown) :
                    result.category_breakdown[i].winner = who})

\* C2: when both upstream totalPoints are exactly zero the reported
\* categories_won / categories_lost are the locally computed win and loss
\* counts; in every other case they are the upstream values unchanged.
C2_DegenerateFallback ==
    ScoresDone =>
        IF CalledYours.totalPoints = 0 /\ CalledOpp.totalPoints = 0
        THEN /\ result.categories_won = LocalCount("YOU")
             /\ result.categories_lost = LocalCount("OPP")
        ELSE /\ result.categories_won = CalledYours.totalPoints
             /\ result.categories_lost = CalledOpp.totalPoints

\* C2 witness: upstream 0-0 while the comparison gives a real record, which
\* is the record reported
C2_Witness ==
    /\ ScoresDone
    /\ CalledYours.totalPoints = 0 /\ CalledOpp.totalPoints = 0
    /\ LocalCount("YOU") = 1 /\ LocalCount("OPP") = 1
    /\ result.categories_won = 1 /\ result.categories_lost = 1

(***************************************************************************)
(* What the projection of a roster should be, said without the operators   *)
(* of the model: the record of a roster entry, its games, the totals.      *)
(***************************************************************************)
SameName(a, b) == Lower(a) = Lower(b)

\* the team code of a roster entry
EntryTeam(entry) == map_espn_team_to_abbr(entry.pro_team_id)

\* positions of the rate records with the entry's name and team / name
ExactRecords(entry) ==
    {i \in 1..Len(player_stats) :
        SameName(player_stats[i].Name, entry.name)
        /\ player_stats[i].Team = EntryTeam(entry)}
NameRecords(entry) ==
    {i \in 1..Len(player_stats) : SameName(player_stats[i].Name, entry.name)}

\* a roster entry is resolved when some record has its name
Resolved(entry) == NameRecords(entry) # {}

\* the record used for a resolved entry: the first with name and team, else
\* the first with the name
RecordOf(entry) ==
    IF ExactRecords(entry) # {}
    THEN player_stats[Min(ExactRecords(entry))]
    ELSE player_stats[Min(NameRecords(entry))]

\* the games of a team in the window [from, to]
GamesIn(team, from, to) ==
    Cardinality({i \in 1..Len(schedule_df) :
                    /\ schedule_df[i].Team = team
                    /\ from <= schedule_df[i].ParsedDate
                    /\ schedule_df[i].ParsedDate <= to})

RECURSIVE TotalOf(_, _, _, _)
\* rate times games, summed over the resolved entries of a roster
TotalOf(roster, col, from, to) ==
    IF roster = << >> THEN 0
    ELSE (IF Resolved(roster[1])
          THEN RecordOf(roster[1])[col] * GamesIn(EntryTeam(roster[1]), from, to)
          ELSE 0)
         + TotalOf(Tail(roster), col, from, to)

\* analyze_matchup has returned the matchup dict
AnalyzeReturned ==
    /\ pc = "done"
    /\ call.op = "analyze_matchup"
    /\ raised = ""
    /\ ~IsNone(result)

\* its roster and window: from the day of the call to the Sunday of its week
CalledRoster == call.teams[1].roster
WindowFrom == call.today
WindowTo == call.today - (call.today % 7) + 6
CalledTotal(col) == TotalOf(CalledRoster, col, WindowFrom, WindowTo)
SomeResolved == \E i \in 1..Len(CalledRoster) : Resolved(CalledRoster[i])

\* the printed line with the projected record
RecordLines == {i \in 1..Len(log) : log[i].kind = "projected_record"}
OutcomeLines == {i \in 1..Len(log) : log[i].kind = "outcome"}

\* the documented column name of a stat id
DocumentedName(id) == stat_map[id]

\* the value projected for a category, from the returned totals (a fraction)
ReturnedDelta(name) ==
    IF name \in {"FG%", "FT%"}
    THEN [n |-> result.projections[name].n, d |-> result.projections[name].d * 100]
    ELSE [n |-> result.projections[name], d |-> 1]

\* C3 (as claimed): in a category league every scoring category gets a
\* projected final value, its current value plus the projected value of its
\* column, against the opponent's unchanged current value, and is classified
\* WINNING or LOSING; wins plus losses is the number of categories, no tie.
C3_EveryCategoryClassified ==
    (AnalyzeReturned /\ "projections" \in DOMAIN result
     /\ result.scoring_type = "H2H Category") =>
        /\ \A r \in RecordLines :
            /\ log[r].wins + log[r].losses = Len(categories)
            /\ log[r].ties = 0
        /\ \A i \in 1..Len(categories) :
            \E l \in OutcomeLines :
                /\ log[l].category = DocumentedName(categories[i].stat_id)
                /\ log[l].current_opp = result.category_breakdown[i].opp_score
                /\ log[l].outcome \in {"WINNING", "LOSING"}
                /\ LET d == ReturnedDelta(log[l].category)
                   IN  log[l].projected_yours.n * d.d
                         = (result.category_breakdown[i].your_score * d.d + d.n)
                            * log[l].projected_yours.d

\* the projected final value of category i equals the opponent's current value
ProjectedTie(i) ==
    LET d == ReturnedDelta(DocumentedName(categories[i].stat_id))
        e == result.category_breakdown[i]
    IN  e.your_score * d.d + d.n = e.opp_score * d.d

\* C4 (as claimed): in the projected phase a category whose projected final
\* value equals the opponent's current value is classified LOSING, whatever
\* its orientation, and a category is WINNING only by a strict comparison.
C4_ProjectedTieIsLoss ==
    (AnalyzeReturned /\ "projections" \in DOMAIN result
     /\ result.scoring_type = "H2H Category") =>
        /\ \A i \in 1..Len(categories) :
            ProjectedTie(i) =>
                \E l \in OutcomeLines :
                    /\ log[l].category = DocumentedName(categories[i].stat_id)
                    /\ log[l].outcome = "LOSING"
        /\ \A l \in OutcomeLines :
            log[l].outcome = "WINNING" =>
                IF log[l].is_negative
                THEN log[l].projected_yours.n
                        < log[l].current_opp * log[l].projected_yours.d
                ELSE log[l].projected_yours.n
                        > log[l].current_opp * log[l].projected_yours.d

\* the totals returned under 'projections'
TotalCols == {"PTS", "REB", "AST", "STL", "BLK", "3PM", "TO"}

\* the roster entries a returned top performer can stand for
EntriesOf(t) ==
    {i \in 1..Len(CalledRoster) :
        /\ Resolved(CalledRoster[i])
        /\ CalledRoster[i].name = t.Player
        /\ EntryTeam(CalledRoster[i]) = t.Team}

\* C5: each resolved player's projected stat is its per-game rate times the
\* games of its team in the window, and every returned total is the sum of
\* these products over the resolved roster entries.
C5_TotalsAreRateTimesGames ==
    (AnalyzeReturned /\ "projections" \in DOMAIN result) =>
        /\ \A c \in TotalCols : result.projections[c] = CalledTotal(c)
        /\ \A k \in 1..Len(result.projections.top_performers) :
            LET t == result.projections.top_performers[k]
            IN  \E i \in EntriesOf(t) :
                    LET g == GamesIn(t.Team, WindowFrom, WindowTo)
                    IN  /\ t.GamesRemaining = g
                        /\ \A c \in {"PTS", "REB", "AST", "STL", "BLK"} :
                            t[c] = RecordOf(CalledRoster[i])[c] * g

\* C5 witness: A {PTS 20, FGM 5, FGA 10} with 2 games and B {PTS 10, FGM 2,
\* FGA 4} with 3 games give PTS 70, FGM 16, FGA 32 and FG% 50
C5_Witness ==
    /\ AnalyzeReturned
    /\ "projections" \in DOMAIN result
    /\ Len(CalledRoster) = 2
    /\ Resolved(CalledRoster[1]) /\ Resolved(CalledRoster[2])
    /\ RecordOf(CalledRoster[1])["PTS"] = 20
    /\ GamesIn(EntryTeam(CalledRoster[1]), WindowFrom, WindowTo) = 2
    /\ RecordOf(CalledRoster[2])["PTS"] = 10
    /\ GamesIn(EntryTeam(CalledRoster[2]), WindowFrom, WindowTo) = 3
    /\ result.projections["PTS"] = 70
    /\ CalledTotal("FGM") = 16
    /\ CalledTotal("FGA") = 32
    /\ result.projections["FG%"] = [n |-> 50, d |-> 1]

\* the returned percentage is makes / attempts * 100
IsPctOf(p, made, attempted) ==
    /\ p.d > 0
    /\ p.n * attempted = made * 100 * p.d

\* C6: the returned FG% (FT%) is the summed projected makes over the summed
\* projected attempts of the resolved roster, so a player without a game in
\* the window adds nothing to either sum.
C6_PctOfSummedShots ==
    (AnalyzeReturned /\ "projections" \in DOMAIN result) =>
        /\ CalledTotal("FGA") > 0 =>
            IsPctOf(result.projections["FG%"], CalledTotal("FGM"), CalledTotal("FGA"))
        /\ CalledTotal("FTA") > 0 =>
            IsPctOf(result.projections["FT%"], CalledTotal("FTM"), CalledTotal("FTA"))

\* C6 witness: two resolved shooters, the second without a game: FG% is the
\* first shooter's own 5 of 10
C6_Witness ==
    /\ AnalyzeReturned
    /\ "projections" \in DOMAIN result
    /\ Len(CalledRoster) = 2
    /\ Resolved(CalledRoster[1]) /\ Resolved(CalledRoster[2])
    /\ RecordOf(CalledRoster[1])["FGM"] = 5 /\ RecordOf(CalledRoster[1])["FGA"] = 10
    /\ GamesIn(EntryTeam(CalledRoster[1]), WindowFrom, WindowTo) > 0
    /\ RecordOf(CalledRoster[2])["FGM"] = 1 /\ RecordOf(CalledRoster[2])["FGA"] = 4
    /\ GamesIn(EntryTeam(CalledRoster[2]), WindowFrom, WindowTo) = 0
    /\ result.projections["FG%"] = [n |-> 50, d |-> 1]

\* C7 (as claimed): whenever the summed projected attempts are 0, an empty
\* roster and a roster without a resolved player included, the result
\* defines FG% (FT%) and its value is 0.
C7_ZeroAttemptsAlwaysGiveZero ==
    AnalyzeReturned =>
        /\ CalledTotal("FGA") = 0 =>
            /\ "projections" \in DOMAIN result
            /\ result.projections["FG%"] = FracOfInt(0)
        /\ CalledTotal("FTA") = 0 =>
            /\ "projections" \in DOMAIN result
            /\ result.projections["FT%"] = FracOfInt(0)

\* C7 (amended): when a roster player is resolved and the summed projected
\* attempts are 0, the result defines FG% (FT%) as 0, and the percentages
\* are always numbers; when no roster player is resolved the result is the
\* current matchup without any projections.
C7_ZeroAttemptsGiveZero ==
    AnalyzeReturned =>
        IF SomeResolved
        THEN /\ "projections" \in DOMAIN result
             /\ result.projections["FG%"].d > 0
             /\ result.projections["FT%"].d > 0
             /\ CalledTotal("FGA") = 0 => result.projections["FG%"] = FracOfInt(0)
             /\ CalledTotal("FTA") = 0 => result.projections["FT%"] = FracOfInt(0)
        ELSE /\ "projections" \notin DOMAIN result
             /\ \E i \in 1..Len(log) : log[i].kind = "no_projections"

\* C7 witness: a resolved player with games in the window and no attempts
C7_Witness ==
    /\ AnalyzeReturned
    /\ \E i \in 1..Len(CalledRoster) :
        /\ Resolved(CalledRoster[i])
        /\ GamesIn(EntryTeam(CalledRoster[i]), WindowFrom, WindowTo) > 0
    /\ CalledTotal("FGA") = 0
    /\ CalledTotal("FTA") = 0
    /\ result.projections["FG%"] = FracOfInt(0)
    /\ result.projections["FT%"] = FracOfInt(0)

\* get_player_projections has returned
ProjDone == pc = "done" /\ call.op = "get_player_projections"

\* the row of the returned table for the roster entry at position i
RowOf(i) == result[Cardinality({k \in 1..i : Resolved(call.roster[k])})]

\* a row is the projection of a rate record over the games of the entry's team
RowFrom(row, entry, rec) ==
    LET g == GamesIn(EntryTeam(entry), call.start_date, call.end_date)
    IN  /\ row.Player = entry.name
        /\ row.Team = EntryTeam(entry)
        /\ row.GamesRemaining = g
        /\ \A c \in StatCols : row[c] = rec[c] * g

\* a printed note that the player was found under another team
Flagged(entry, old_team) ==
    \E l \in 1..Len(log) :
        /\ log[l].kind = "team_changed"
        /\ log[l].player = entry.name
        /\ log[l].old_team = old_team
        /\ log[l].new_team = EntryTeam(entry)

\* C8: a record matching the name (case-insensitively) and the team is the
\* one used, even when other records share the name, and nothing is
\* flagged; only without such a record is the name alone tried, and a
\* single name-only match is used and flagged as a team mismatch.
C8_LookupPrecedence ==
    ProjDone =>
        /\ Len(result) = Cardinality({k \in 1..Len(call.roster) : Resolved(call.roster[k])})
        /\ \A i \in 1..Len(call.roster) :
            LET entry == call.roster[i]
            IN  /\ ExactRecords(entry) # {} =>
                    /\ RowFrom(RowOf(i), entry, player_stats[Min(ExactRecords(entry))])
                    /\ \A t \in {"ATL", "BOS", "CHI", "UNK"} : ~Flagged(entry, t)
                /\ (ExactRecords(entry) = {} /\ Cardinality(NameRecords(entry)) = 1) =>
                    LET rec == player_stats[Min(NameRecords(entry))]
                    IN  /\ RowFrom(RowOf(i), entry, rec)
                        /\ Flagged(entry, rec.Team)

\* C8 witness: the name+team record stands second, behind a record with the
\* same name and another rate, and is the one used (games in the window)
C8_Witness ==
    /\ ProjDone
    /\ \E i \in 1..Len(call.roster) :
        LET entry == call.roster[i]
        IN  /\ ExactRecords(entry) # {}
            /\ Min(NameRecords(entry)) < Min(ExactRecords(entry))
            /\ player_stats[Min(NameRecords(entry))]["PTS"]
                 # player_stats[Min(ExactRecords(entry))]["PTS"]
            /\ entry.name # player_stats[Min(ExactRecords(entry))].Name
            /\ RowOf(i).GamesRemaining > 0
            /\ RowFrom(RowOf(i), entry, player_stats[Min(ExactRecords(entry))])

\* no name+team record, and two or more records with the name
Ambiguous(entry) ==
    ExactRecords(entry) = {} /\ Cardinality(NameRecords(entry)) >= 2

\* C9 (as claimed): an ambiguous roster player has no row in the returned
\* table (none of the candidates is picked) and a diagnostic says that it
\* was not found.
C9_AmbiguousIsNotFound ==
    ProjDone =>
        /\ Len(result) = Cardinality({k \in 1..Len(call.roster) :
                                        Resolved(call.roster[k])
                                        /\ ~Ambiguous(call.roster[k])})
        /\ \A i \in 1..Len(call.roster) :
            Ambiguous(call.roster[i]) =>
                \E l \in 1..Len(log) :
                    /\ log[l].kind = "not_found"
                    /\ log[l].player = call.roster[i].name

\* the roster players with no record of their name
Absent == {i \in 1..Len(CalledRoster) : ~Resolved(CalledRoster[i])}

\* the printed warnings that a player has no stats
NotFoundNotes == {l \in 1..Len(log) : log[l].kind = "not_found"}

\* C10 (as claimed): with exactly one roster player absent from the rate
\* table, the result carries an 'unresolved' list of length 1.
C10_UnresolvedListReturned ==
    (AnalyzeReturned /\ Cardinality(Absent) = 1) =>
        /\ "unresolved" \in DOMAIN result
        /\ Len(result["unresolved"]) = 1

\* C10 (amended): a roster player absent from the rate table adds nothing to
\* the result, which is the one returned for the roster without the absent
\* players; the call does not fail; each absent player is reported by one
\* printed warning with its name, and the result carries no 'unresolved' list.
C10_UnresolvedSkippedAndWarned ==
    AnalyzeReturned =>
        /\ result = analyze_matchup(team_id, scoring_type, categories,
                                    player_stats, schedule_df, call.week, call.data,
                                    TeamsOf(SelectSeq(CalledRoster, Resolved)),
                                    call.today).value
        /\ ("projections" \in DOMAIN result) = SomeResolved
        /\ Cardinality(NotFoundNotes) = Cardinality(Absent)
        /\ \A i \in Absent :
            \E l \in NotFoundNotes : log[l].player = CalledRoster[i].name
        /\ "unresolved" \notin DOMAIN result

\* C10 witness: the first roster player is absent, the second is resolved
\* and projected with games; one warning is printed
C10_Witness ==
    /\ AnalyzeReturned
    /\ Len(CalledRoster) = 2
    /\ Absent = {1}
    /\ Cardinality(NotFoundNotes) = 1
    /\ "projections" \in DOMAIN result
    /\ result.projections["total_games"] > 0
    /\ result.projections["PTS"] = CalledTotal("PTS")
    /\ result.projections["PTS"] > 0

(***************************************************************************)
(* The matchup that cannot be found.                                       *)
(***************************************************************************)
MatchupOps ==
    {"get_current_matchup_scores", "analyze_matchup", "compare_with_opponent"}

\* the schedule of the response is empty, or none of its matchups of the
\* response's period has the analyzer's team as home or away
NoMatchupOfTeam(data) ==
    \A i \in 1..Len(data.schedule) :
        \/ data.schedule[i].matchupPeriodId # data.scoringPeriodId
        \/ /\ data.schedule[i].home.teamId # team_id
           /\ data.schedule[i].away.teamId # team_id

\* C11: when the schedule is empty or no matchup of the period has the
\* analyzer's team, get_current_matchup_scores, analyze_matchup and
\* compare_with_opponent return None without raising, and nothing of the
\* roster or the projections is fetched, computed or printed.
C11_NoMatchupFound ==
    (pc = "done" /\ call.op \in MatchupOps /\ NoMatchupOfTeam(call.data)) =>
        /\ result = PyNone
        /\ raised = ""
        /\ log = << >>
        /\ (call.op # "get_current_matchup_scores" => "teams" \notin DOMAIN call)

\* C11 witness: compare_with_opponent on a schedule with another pair's
\* matchup; the call has ended without a request of the roster
C11_Witness ==
    /\ pc = "done"
    /\ call.op = "compare_with_opponent"
    /\ call.data.schedule # << >>
    /\ NoMatchupOfTeam(call.data)
    /\ "teams" \notin DOMAIN call
    /\ result = PyNone
    /\ raised = ""

(***************************************************************************)
(* The schedule queries.                                                   *)
(***************************************************************************)
QueryDone(op) == pc = "done" /\ call.op = op

\* the team code an argument stands for
TeamCodeOf(team) == IF team = "atl" THEN "ATL" ELSE team

\* the positions of the schedule table with a game of the team from day
\* from to day to, both included
GamePositions(team, from, to) ==
    {i \in 1..Len(schedule_df) :
        /\ schedule_df[i].Team = TeamCodeOf(team)
        /\ from <= schedule_df[i].ParsedDate
        /\ schedule_df[i].ParsedDate <= to}

\* C12: get_game_count_in_range(T, s, e) is the number of entries that
\* get_games_in_date_range(T, s, e) returns, for every team and window
\* (e before s and teams without entries included).
C12_CountIsLengthOfGames ==
    QueryDone("get_game_count_in_range") =>
        /\ result = Len(get_games_in_date_range(schedule_df, call.team,
                                                call.start_date, call.end_date))
        /\ result = Cardinality(GamePositions(call.team, call.start_date,
                                              call.end_date))

\* C12 witness: a count of two games, the second on the end date
C12_Witness ==
    /\ QueryDone("get_game_count_in_range")
    /\ call.start_date < call.end_date
    /\ \E i \in 1..Len(schedule_df) : schedule_df[i].ParsedDate = call.end_date
    /\ result = 2

\* C13: get_games_in_date_range(team, start, end) returns exactly the
\* entries of the upper-cased team with start <= date <= end, each as often
\* as the table has it, in ascending date order, and raises nothing (an
\* empty sequence when the team has no game in the range).
C13_GamesInRange ==
    QueryDone("get_games_in_date_range") =>
        LET inside == GamePositions(call.team, call.start_date, call.end_date)
        IN  /\ raised = ""
            /\ Len(result) = Cardinality(inside)
            /\ \A k \in 1..Len(result) :
                    Cardinality({j \in 1..Len(result) : result[j] = result[k]})
                      = Cardinality({i \in inside : schedule_df[i] = result[k]})
            /\ \A j, k \in 1..Len(result) :
                    j < k => result[j].ParsedDate <= result[k].ParsedDate
            /\ inside = {} => result = << >>

\* C13 witness: a lower-case team argument, the table with the later game
\* first, the two games on the start and on the end date
C13_Witness ==
    /\ QueryDone("get_games_in_date_range")
    /\ call.team = "atl"
    /\ Len(schedule_df) = 2
    /\ schedule_df[1] = Game("ATL", call.end_date)
    /\ schedule_df[2] = Game("ATL", call.start_date)
    /\ call.start_date < call.end_date
    /\ result = <<schedule_df[2], schedule_df[1]>>

\* C14: get_teams_playing_on(date) lists exactly the teams with an entry on
\* that date, each once.
C14_TeamsPlayingOn ==
    QueryDone("get_teams_playing_on") =>
        /\ {result[k] : k \in 1..Len(result)}
             = {schedule_df[i].Team :
                  i \in {j \in 1..Len(schedule_df) :
                           schedule_df[j].ParsedDate = call.date}}
        /\ \A j, k \in 1..Len(result) : j # k => result[j] # result[k]

\* C14 witness: two teams on the date; and a team with two entries on the
\* date is a case of the same runs
C14_Witness ==
    /\ QueryDone("get_teams_playing_on")
    /\ Len(schedule_df) = 2
    /\ schedule_df[1] = Game("BOS", call.date)
    /\ schedule_df[2] = Game("ATL", call.date)
    /\ result = <<"ATL", "BOS">>

\* the Monday of the week of day d
MondayOf(d) == CHOOSE m \in 0..d : m % 7 = 0 /\ m <= d /\ d < m + 7

\* C15: calculate_weekly_game_counts(d) uses the Monday of d's week (never a
\* later day), prints a warning exactly when d is not a Monday, and counts
\* per team the entries from that Monday through the following Sunday.
C15_WeeklyGameCounts ==
    QueryDone("calculate_weekly_game_counts") =>
        LET d == call.week_start_date
            monday == MondayOf(d)
            count(t) == Cardinality({i \in 1..Len(schedule_df) :
                                       /\ schedule_df[i].Team = t
                                       /\ monday <= schedule_df[i].ParsedDate
                                       /\ schedule_df[i].ParsedDate <= monday + 6})
            playing == {t \in {"ATL", "BOS", "CHI"} : count(t) > 0}
            warnings == {l \in 1..Len(log) : log[l].kind = "not_monday"}
        IN  /\ \E l \in 1..Len(log) :
                    /\ log[l].kind = "week"
                    /\ log[l].week_start = monday
                    /\ log[l].week_end = monday + 6
            /\ Cardinality(warnings) = IF d = monday THEN 0 ELSE 1
            /\ Len(result) = Cardinality(playing)
            /\ \A t \in playing :
                    \E k \in 1..Len(result) :
                        result[k].Team = t /\ result[k].GamesInWeek = count(t)

\* C15 witness: asked with the Sunday of the first week, the games of the
\* Monday before and of that Sunday are both counted, and a warning printed
C15_Witness ==
    /\ QueryDone("calculate_weekly_game_counts")
    /\ call.week_start_date = 6
    /\ schedule_df = <<Game("ATL", 6), Game("ATL", 0)>>
    /\ Len(result) = 1
    /\ result[1].GamesInWeek = 2
    /\ \E l \in 1..Len(log) : log[l].kind = "not_monday"

(***************************************************************************)
(* The schedule as loaded by the scraper.                                  *)
(***************************************************************************)
EnhanceDone == pc = "done" /\ call.op = "_enhance_schedule"

\* entries i and i + 1 of the result are one day apart
OneDayApart(i) ==
    /\ i >= 1 /\ i < Len(result)
    /\ result[i].ParsedDate # NaT
    /\ result[i + 1].ParsedDate - result[i].ParsedDate = 1

\* C16 (as claimed): of every two adjacent entries one day apart both are
\* marked IsBackToBack, one First and the other Second, runs of three or
\* more consecutive days included; and an entry marked First or Second is
\* one day apart from an adjacent entry.
C16_BackToBackPairsMarked ==
    EnhanceDone =>
        /\ \A i \in 1..Len(result) :
            OneDayApart(i) =>
                /\ result[i].IsBackToBack /\ result[i + 1].IsBackToBack
                /\ {result[i].BackToBackPosition, result[i + 1].BackToBackPosition}
                     = {"First", "Second"}
        /\ \A i \in 1..Len(result) :
            result[i].BackToBackPosition \in {"First", "Second"} =>
                OneDayApart(i) \/ OneDayApart(i - 1)

\* the rows of the page with the date d
PageRowsOn(d) ==
    {i \in 1..Len(call.df) : parse_espn_date(call.df[i].DATE) = d}

\* C17 (as claimed): the entries of the team are in ascending date order and
\* no two of them share a date.
C17_SortedWithoutDuplicates ==
    EnhanceDone =>
        /\ \A j, k \in 1..Len(result) :
            (j < k /\ result[j].ParsedDate # NaT /\ result[k].ParsedDate # NaT)
                => result[j].ParsedDate <= result[k].ParsedDate
        /\ \A j, k \in 1..Len(result) :
            (j # k /\ result[j].ParsedDate # NaT)
                => result[j].ParsedDate # result[k].ParsedDate

\* C17 (amended): the entries of the team are in ascending date order, the
\* entries without a parsed date last; every row of the page is kept, so
\* two entries share a date exactly when two rows of the page carry it.
C17_SortedKeepingEveryRow ==
    EnhanceDone =>
        /\ Len(result) = Len(call.df)
        /\ \A j, k \in 1..Len(result) :
            (j < k /\ result[k].ParsedDate # NaT) =>
                /\ result[j].ParsedDate # NaT
                /\ result[j].ParsedDate <= result[k].ParsedDate
        /\ \A k \in 1..Len(result) :
            Cardinality({j \in 1..Len(result) :
                           result[j].ParsedDate = result[k].ParsedDate})
              = Cardinality(PageRowsOn(result[k].ParsedDate))

\* C17 witness: a page with January 1 before December 31 and October 22,
\* loaded in the order October, December, January
C17_Witness ==
    /\ EnhanceDone
    /\ Len(call.df) = 3
    /\ call.df[1].DATE = [mon |-> "Jan", day |-> 1]
    /\ call.df[2].DATE = [mon |-> "Dec", day |-> 31]
    /\ call.df[3].DATE = [mon |-> "Oct", day |-> 22]
    /\ result[1].DATE = call.df[3].DATE
    /\ result[2].DATE = call.df[2].DATE
    /\ result[3].DATE = call.df[1].DATE
    /\ result[3].ParsedDate - result[2].ParsedDate = 1

(***************************************************************************)
(* Interleaved queries leave the tables as loaded.                         *)
(***************************************************************************)
\* what a call answers when it runs alone on the tables tbl and df
AnswerAlone(c, tbl, df) ==
    IF c.op = "get_games_in_date_range"
    THEN [value |-> get_games_in_date_range(df, c.team, c.start_date,
                                            c.end_date),
          raised |-> "", log |-> << >>]
    ELSE IF c.op = "get_game_count_in_range"
    THEN [value |-> get_game_count_in_range(df, c.team, c.start_date,
                                            c.end_date),
          raised |-> "", log |-> << >>]
    ELSE IF c.op = "get_teams_playing_on"
    THEN [value |-> get_teams_playing_on(df, c.date), raised |-> "",
          log |-> << >>]
    ELSE IF c.op = "calculate_weekly_game_counts"
    THEN [value |-> calculate_weekly_game_counts(df, c.week_start_date).value,
          raised |-> "",
          log |-> calculate_weekly_game_counts(df, c.week_start_date).log]
    ELSE IF c.op = "get_all_weekly_breakdowns"
    THEN IF df = << >>
         THEN [value |-> PyNone, raised |-> "ValueError", log |-> << >>]
         ELSE [value |-> get_all_weekly_breakdowns(df), raised |-> "",
               log |-> << >>]
    ELSE [value |-> get_player_projections(tbl, df, c.roster, c.start_date,
                                           c.end_date).rows,
          raised |-> "",
          log |-> get_player_projections(tbl, df, c.roster, c.start_date,
                                         c.end_date).log]

\* the answer of caller c is the one its call gives alone
AnsweredAsAlone(c) ==
    LET alone == AnswerAlone(threads[c].call, player_stats, schedule_df)
    IN  /\ threads[c].result = alone.value
        /\ threads[c].raised = alone.raised
        /\ threads[c].log = alone.log

\* C18: however the statements of the callers' get_games_in_date_range,
\* get_game_count_in_range, get_teams_playing_on,
\* calculate_weekly_game_counts, get_all_weekly_breakdowns and
\* get_player_projections calls interleave, no statement changes the
\* schedule or the player-rate table, and every call that has ended has
\* the answer (value, exception and printed lines) that it gives when it
\* runs alone on the loaded tables.
C18_InterleavedQueriesAnswerAsAlone ==
    /\ [][schedule_df' = schedule_df /\ player_stats' = player_stats]_vars
    /\ [](\A c \in Callers : threads[c].pc = "done" => AnsweredAsAlone(c))

\* C18 witness: caller a has its get_games_in_date_range answer, the games
\* in date order, from a table that still has them out of order, while
\* caller b is in the loop of get_player_projections with one of its two
\* players projected
C18_Witness ==
    /\ schedule_df = ScheduleUnsorted
    /\ threads["a"].pc = "done"
    /\ threads["a"].call.op = "get_games_in_date_range"
    /\ threads["a"].result = <<schedule_df[3], schedule_df[2]>>
    /\ threads["b"].pc = "looping"
    /\ threads["b"].call.op = "get_player_projections"
    /\ threads["b"].local = 2
    /\ Len(threads["b"].acc) = 1

(***************************************************************************)
(* Missing data files.                                                     *)
(***************************************************************************)
\* a constructor was called with a data file that it needs absent
FileMissing ==
    \/ /\ call.op = "ScheduleAnalyzer"
       /\ ~call.schedule_file.exists
    \/ /\ call.op = "MatchupAnalyzer"
       /\ ~call.schedule_file.exists \/ ~call.stats_file.exists

\* C19: when the schedule file or the player-rate file is absent, the
\* constructor raises FileNotFoundError, no table is held by any object,
\* and no query or analysis can be run.
C19_MissingDataSourceIsFatal ==
    FileMissing =>
        /\ raised = "FileNotFoundError"
        /\ pc = "failed"
        /\ schedule_df = << >> /\ player_stats = << >>
        /\ ~ENABLED NextLoad

\* C19 witness: MatchupAnalyzer with the schedule file present and the
\* player-rate file absent
C19_Witness ==
    /\ call.op = "MatchupAnalyzer"
    /\ call.schedule_file = FileOf(ScheduleFull)
    /\ ~call.stats_file.exists
    /\ raised = "FileNotFoundError"
    /\ pc = "failed"

(***************************************************************************)
(* Categories missing from the score maps.                                 *)
(***************************************************************************)
\* the value a side's score map gives to a stat id, 0 without an entry
ScoreOf(side, stat_id) ==
    LET m == side.cumulativeScore.scoreByStat
    IN  IF PyStr(stat_id) \in DOMAIN m THEN m[PyStr(stat_id)] ELSE 0

\* C20: a category absent from a side's score map has the value 0 for that
\* side, is in the breakdown like every category of the league, and has the
\* winner its orientation gives; nothing is raised.
C20_MissingCategoryIsZero ==
    ScoresDone =>
        /\ Len(result.category_breakdown) = Len(categories)
        /\ \A i \in 1..Len(categories) :
            LET e == result.category_breakdown[i]
                y == ScoreOf(CalledYours, categories[i].stat_id)
                o == ScoreOf(CalledOpp, categories[i].stat_id)
                better == IF categories[i].is_negative THEN y < o ELSE y > o
                worse == IF categories[i].is_negative THEN o < y ELSE o > y
            IN  /\ e.your_score = y
                /\ e.opp_score = o
                /\ e.winner = IF better THEN "YOU" ELSE IF worse THEN "OPP" ELSE "TIE"

\* C20 witness: the analyzer's side lacks a negative and a non-negative
\* category that the opponent has; it wins the first and loses the second
C20_Witness ==
    /\ ScoresDone
    /\ DOMAIN CalledYours.cumulativeScore.scoreByStat = {}
    /\ \E i, j \in 1..Len(categories) :
        /\ categories[i].is_negative /\ ~categories[j].is_negative
        /\ ScoreOf(CalledOpp, categories[i].stat_id) > 0
        /\ ScoreOf(CalledOpp, categories[j].stat_id) > 0
        /\ result.category_breakdown[i].your_score = 0
        /\ result.category_breakdown[i].winner = "YOU"
        /\ result.category_breakdown[j].your_score = 0
        /\ result.category_breakdown[j].winner = "OPP"

(***************************************************************************)
(* Invalid date ranges.                                                    *)
(***************************************************************************)
\* a range query whose end date is before its start date
ReversedRange ==
    /\ pc = "done"
    /\ call.op \in {"get_games_in_date_range", "get_game_count_in_range"}
    /\ call.end_date < call.start_date

\* a weekly count whose start date is not a Monday
NonMondayStart ==
    /\ QueryDone("calculate_weekly_game_counts")
    /\ DayOfWeek(call.week_start_date) # 0

\* C21: a range query with the end before the start and a weekly count with
\* a non-Monday start raise nothing, and both print a diagnostic note.
C21_InvalidRangeNoted ==
    (ReversedRange \/ NonMondayStart) => (raised = "" /\ log # << >>)

\* what the code does for the two cases: neither raises; the weekly count
\* is moved to its Monday and prints the warning; the reversed range query
\* answers with no game (or 0) and prints nothing
C21_ReversedRangeIsSilent ==
    /\ NonMondayStart =>
          /\ raised = ""
          /\ \E i \in 1..Len(log) : log[i].kind = "not_monday"
    /\ ReversedRange =>
          /\ raised = ""
          /\ log = << >>
          /\ result = IF call.op = "get_game_count_in_range" THEN 0 ELSE << >>

(***************************************************************************)
(* Category naming.                                                        *)
(***************************************************************************)
\* C22: every scoring category whose stat id is in the stat map is recorded
\* in category_breakdown under the mapped column name.
C22_CategoryNamedByColumn ==
    (ScoresDone /\ scoring_type = "H2H Category") =>
        \A i \in 1..Len(categories) :
            (PyStr(categories[i].stat_id) # "None"
             /\ categories[i].stat_id \in DOMAIN stat_map) =>
                result.category_breakdown[i].category
                    = stat_map[categories[i].stat_id]

\* what the code records: the placeholder name of the stat id's string
C22_CategoryNamedByPlaceholder ==
    (ScoresDone /\ scoring_type = "H2H Category") =>
        \A i \in 1..Len(categories) :
            result.category_breakdown[i].category
                = "STAT_" \o PyStr(categories[i].stat_id)

(***************************************************************************)
(* Percentage categories in the projected phase.                           *)
(***************************************************************************)
\* the makes and attempts columns of a percentage category
ShotCols(name) ==
    IF name = "FG%" THEN [made |-> "FGM", attempted |-> "FGA"]
    ELSE [made |-> "FTM", attempted |-> "FTA"]

\* C23: for the FG% and FT% categories the projected final value printed is
\* the current value, as the scoreline has it, plus the summed projected
\* makes over the summed projected attempts of the roster (plus 0 without
\* attempts).
C23_PercentageProjectedFinal ==
    (AnalyzeReturned /\ "projections" \in DOMAIN result
     /\ result.scoring_type = "H2H Category") =>
        \A i \in 1..Len(categories) :
            categories[i].stat_id \in {19, 20} =>
                LET name == DocumentedName(categories[i].stat_id)
                    made == CalledTotal(ShotCols(name).made)
                    attempted == CalledTotal(ShotCols(name).attempted)
                    yours == result.category_breakdown[i].your_score
                IN  \E l \in OutcomeLines :
                        /\ log[l].category = name
                        /\ log[l].current_yours = yours
                        /\ log[l].projected_yours.d > 0
                        /\ IF attempted > 0
                           THEN log[l].projected_yours.n * attempted
                                  = (yours * attempted + made)
                                      * log[l].projected_yours.d
                           ELSE log[l].projected_yours.n
                                  = yours * log[l].projected_yours.d

(***************************************************************************)
(* Consistency of the category record.                                     *)
(***************************************************************************)
\* C24: in every H2H Category result categories_won + categories_lost +
\* categories_tied is the number of scoring categories, and is_winning is
\* true exactly when categories_won > categories_lost.
C24_RecordConsistent ==
    (ScoresDone /\ result.scoring_type = "H2H Category") =>
        /\ result.categories_won + result.categories_lost
              + result.categories_tied = Len(categories)
        /\ result.is_winning = (result.categories_won > result.categories_lost)

\* what the code keeps: is_winning follows the reported counts; the three
\* counts add up to the number of categories when the counts are taken from
\* the breakdown (both upstream counts zero)
C24_RecordConsistentInFallback ==
    (ScoresDone /\ result.scoring_type = "H2H Category") =>
        /\ result.is_winning = (result.categories_won > result.categories_lost)
        /\ (CalledYours.totalPoints = 0 /\ CalledOpp.totalPoints = 0) =>
              result.categories_won + result.categories_lost
                + result.categories_tied = Len(categories)

(***************************************************************************)
(* The categories of an H2H Category analyzer.                             *)
(***************************************************************************)
\* C25: an analyzer classified 'H2H Category' has its category list, and
\* get_current_matchup_scores on a located matchup raises nothing, for
\* every league configuration.
C25_CategoryLeagueHasCategories ==
    scoring_type = "H2H Category" =>
        /\ categories # Unset
        /\ (/\ pc = "done"
            /\ call.op = "get_current_matchup_scores"
            /\ ~NoMatchupOfTeam(call.data)) => raised = ""

\* what the code does for a league with scoringType H2H_CATEGORY and no
\* scoring items: the located matchup ends in AttributeError
C25_NoCategoriesRaises ==
    (/\ pc = "done"
     /\ call.op = "get_current_matchup_scores"
     /\ ~NoMatchupOfTeam(call.data)) =>
        (raised = "AttributeError")
            = (scoring_type = "H2H Category" /\ categories = Unset)

(***************************************************************************)
(* Matchup selection and orientation.                                      *)
(***************************************************************************)
\* get_current_matchup_scores has returned a result
ScoresReturned ==
    /\ pc = "done"
    /\ call.op = "get_current_matchup_scores"
    /\ raised = ""
    /\ ~IsNone(result)

\* C26: the matchup used is the first of the schedule with the current
\* period and the analyzer's team on a side; the 'your' values are those of
\* the side with the analyzer's team id, the 'opp' values and
\* opponent_team_id those of the other side, at home as away.
C26_FirstMatchupOriented ==
    ScoresReturned =>
        /\ result.your_team_id = team_id
        /\ CalledYours.teamId = team_id
        /\ result.opponent_team_id = CalledOpp.teamId
        /\ IF result.scoring_type = "Points"
           THEN /\ result.your_total_score = CalledYours.totalPoints
                /\ result.opponent_total_score = CalledOpp.totalPoints
           ELSE /\ \A i \in 1..Len(categories) :
                    /\ result.category_breakdown[i].your_score
                         = ScoreOf(CalledYours, categories[i].stat_id)
                    /\ result.category_breakdown[i].opp_score
                         = ScoreOf(CalledOpp, categories[i].stat_id)
                /\ (CalledYours.totalPoints # 0 \/ CalledOpp.totalPoints # 0) =>
                    /\ result.categories_won = CalledYours.totalPoints
                    /\ result.categories_lost = CalledOpp.totalPoints

\* C26 witness: the analyzer's team away in the second matchup of the
\* schedule and again in the third, against another opponent with other
\* scores; the result is that of the second
C26_Witness ==
    /\ ScoresReturned
    /\ Len(call.data.schedule) = 3
    /\ call.data.schedule[2].away.teamId = team_id
    /\ call.data.schedule[3].away.teamId = team_id
    /\ result.opponent_team_id = call.data.schedule[2].home.teamId
    /\ result.opponent_team_id # call.data.schedule[3].home.teamId
    /\ result.scoring_type = "H2H Category"
    /\ Len(categories) > 0
    /\ result.category_breakdown[1].your_score = 1
    /\ result.category_breakdown[1].your_score
         # ScoreOf(call.data.schedule[3].away, categories[1].stat_id)

(***************************************************************************)
(* The games of a resolved player.                                         *)
(***************************************************************************)
\* the code of the pro team a roster entry names, 'UNK' for an id without one
CurrentTeam(entry) ==
    IF entry.pro_team_id \in DOMAIN team_map
    THEN team_map[entry.pro_team_id] ELSE "UNK"

\* C27: the games remaining of a resolved player are the games of the
\* roster's current pro team in the window, whatever the team of the rate
\* record used; a resolved player without such a game (an unmapped team id
\* included) stays in the projection with GamesRemaining 0 and 0 in every
\* stat column.
C27_GamesOfCurrentTeam ==
    ProjDone =>
        /\ Len(result) = Cardinality({k \in 1..Len(call.roster) :
                                        Resolved(call.roster[k])})
        /\ \A i \in 1..Len(call.roster) :
            Resolved(call.roster[i]) =>
                LET g == GamesIn(CurrentTeam(call.roster[i]), call.start_date,
                                 call.end_date)
                IN  /\ RowOf(i).Player = call.roster[i].name
                    /\ RowOf(i).Team = CurrentTeam(call.roster[i])
                    /\ RowOf(i).GamesRemaining = g
                    /\ g = 0 => \A c \in StatCols : RowOf(i)[c] = 0

\* C27 witness: a player on CHI whose only record is on BOS gets the one
\* game of CHI, not the three of BOS; behind him a player with an unmapped
\* team id and a record with rates is in the projection with no game
C27_Witness ==
    /\ ProjDone
    /\ Len(call.roster) = 2 /\ Len(result) = 2
    /\ call.roster[1].pro_team_id = 4
    /\ RecordOf(call.roster[1]).Team = "BOS"
    /\ GamesIn("BOS", call.start_date, call.end_date) = 3
    /\ result[1].Team = "CHI" /\ result[1].GamesRemaining = 1
    /\ result[1]["PTS"] = RecordOf(call.roster[1])["PTS"]
    /\ call.roster[2].pro_team_id = 0
    /\ RecordOf(call.roster[2])["PTS"] > 0
    /\ result[2].Team = "UNK" /\ result[2].GamesRemaining = 0
    /\ result[2]["PTS"] = 0

(***************************************************************************)
(* The weeks of the season.                                                *)
(***************************************************************************)
\* the positions of the schedule table with a game in week w of the result
InWeek(w) ==
    {i \in 1..Len(schedule_df) :
        /\ result[w].WeekStart <= schedule_df[i].ParsedDate
        /\ schedule_df[i].ParsedDate <= result[w].WeekEnd}

RECURSIVE SumOfCounts(_, _)
\* the counts of team t summed over the first n weeks of the result
SumOfCounts(t, n) ==
    IF n = 0 THEN 0 ELSE SumOfCounts(t, n - 1) + result[n].counts[t]

\* C28: on a schedule with games get_all_weekly_breakdowns gives
\* consecutive Monday-to-Sunday weeks, the first with the earliest game,
\* the last with the latest; every entry is in exactly one week, each team's
\* counts add up to its number of entries, and a team without a game in a
\* week has count 0 there.
C28_WeeksPartitionTheSeason ==
    (QueryDone("get_all_weekly_breakdowns") /\ schedule_df # << >>) =>
        /\ raised = ""
        /\ Len(result) >= 1
        /\ \A w \in 1..Len(result) :
            /\ result[w].WeekStart % 7 = 0
            /\ result[w].WeekEnd = result[w].WeekStart + 6
            /\ w > 1 => result[w].WeekStart = result[w - 1].WeekStart + 7
        /\ \E i \in InWeek(1) :
                \A j \in 1..Len(schedule_df) :
                    schedule_df[i].ParsedDate <= schedule_df[j].ParsedDate
        /\ \E i \in InWeek(Len(result)) :
                \A j \in 1..Len(schedule_df) :
                    schedule_df[j].ParsedDate <= schedule_df[i].ParsedDate
        /\ \A i \in 1..Len(schedule_df) :
                Cardinality({w \in 1..Len(result) : i \in InWeek(w)}) = 1
        /\ \A i \in 1..Len(schedule_df) : \A w \in 1..Len(result) :
            LET t == schedule_df[i].Team
            IN  /\ result[w].counts[t]
                     = Cardinality({j \in InWeek(w) : schedule_df[j].Team = t})
                /\ SumOfCounts(t, Len(result))
                     = Cardinality({j \in 1..Len(schedule_df) :
                                       schedule_df[j].Team = t})

\* C28 witness: games on the Tuesday of the first week and on the Tuesday of
\* the third give three weeks, the second without a game, and a team with
\* count 1, 0, 0
C28_Witness ==
    /\ QueryDone("get_all_weekly_breakdowns")
    /\ Len(schedule_df) = 2
    /\ schedule_df[1].ParsedDate = 15 /\ schedule_df[2].ParsedDate = 1
    /\ schedule_df[1].Team # schedule_df[2].Team
    /\ Len(result) = 3
    /\ result[1].WeekStart = 0 /\ result[3].WeekEnd = 20
    /\ InWeek(2) = {}
    /\ result[1].counts[schedule_df[2].Team] = 1
    /\ result[2].counts[schedule_df[2].Team] = 0
    /\ result[3].counts[schedule_df[2].Team] = 0

(***************************************************************************)
(* Paginated scraping.                                                     *)
(***************************************************************************)
\* a paginated scrape of a known category has returned
Scraped ==
    /\ pc = "done"
    /\ call.op \in {"get_all_players_paginated", "scrape_category"}
    /\ call.category \in stat_categories \cup {""}

\* page p was requested and yields data: it answers without error, with
\* two tables, each with rows
Yields(p) ==
    /\ p <= Len(call.site)
    /\ call.site[p].kind = "html"
    /\ call.site[p].tables >= 2
    /\ call.site[p].players_data # << >>
    /\ call.site[p].stats_data # << >>

\* the pages scraped: those before the first page that does not yield data
ScrapedPages == {p \in 1..call.max_pages : \A q \in 1..p : Yields(q)}

\* the pages announced, in the order of the printed lines
PagesAsked ==
    LET lines == SelectSeq(log, LAMBDA line : line.kind = "page")
    IN  [i \in 1..Len(lines) |-> lines[i].page]

RECURSIVE FramesOf(_)
\* the rows of the frames of pages 1..k, page after page
FramesOf(k) ==
    IF k = 0 THEN << >>
    ELSE FramesOf(k - 1) \o page_df(call.site[k].players_data,
                                    call.site[k].stats_data)

\* C29: both scrapers ask for the pages 1, 2, ... in order, never more than
\* max_pages, and no page after the first that raises, has fewer than two
\* tables or has no rows; they return the frames of the pages before that
\* one, joined in page order, and None exactly when no page yielded data
\* (as for a category the scraper does not know, which asks for no page).
\* The requests made are those of the pages announced, and the call taken
\* page by page returns and prints what it does on these answers as a whole.
C29_PagesUntilFirstFailure ==
    /\ (pc = "done" /\ call.op = "scrape_category"
            /\ call.category \notin stat_categories) =>
        (raised = "" /\ IsNone(result) /\ PagesAsked = << >>)
    /\ Scraped =>
        LET scraped == Cardinality(ScrapedPages)
            asked == IF scraped < call.max_pages THEN scraped + 1 ELSE scraped
        IN  /\ raised = ""
            /\ PagesAsked = [i \in 1..asked |-> i]
            /\ asked <= call.max_pages
            /\ Len(call.site) = asked
            /\ LET whole == IF call.op = "scrape_category"
                            THEN scrape_category(call.site, call.category,
                                                 call.max_pages)
                            ELSE get_all_players_paginated(call.site,
                                                           call.max_pages)
               IN  result = whole.value /\ log = whole.log
            /\ IsNone(result) <=> scraped = 0
            /\ result = FramesOf(scraped)
            /\ \A i, j \in 1..Len(result) :
                LET pg(k) == IF result[k].PTS # Missing THEN result[k].PTS[1]
                             ELSE result[k].Name[1]
                    at(k) == IF result[k].PTS # Missing THEN result[k].PTS[2]
                             ELSE result[k].Name[2]
                IN  i < j => \/ pg(i) < pg(j)
                             \/ pg(i) = pg(j) /\ at(i) < at(j)

\* C29 witness: the first two pages yield rows and the third raises; the
\* three pages were asked for in order and the rows of pages 1 and 2 are
\* returned, those of page 1 first
C29_Witness ==
    /\ Scraped
    /\ call.max_pages = 3
    /\ Yields(1) /\ Yields(2)
    /\ call.site[3].kind = "error"
    /\ PagesAsked = <<1, 2, 3>>
    /\ Len(result) >= 2
    /\ result[1].PTS = <<1, 1>>
    /\ result[Len(result)].PTS = <<2, MaxScrapeRows>>

(***************************************************************************)
(* The comparison without the opponent's projections.                      *)
(***************************************************************************)
\* compare_with_opponent has ended, having located the matchup and fetched
\* the analyzer's own roster
Compared ==
    /\ pc = "done"
    /\ call.op = "compare_with_opponent"
    /\ LET scores == get_current_matchup_scores(team_id, scoring_type,
                                                categories, call.week, call.data)
       IN  scores.raised = "" /\ ~IsNone(scores.value)
    /\ get_my_team(call.teams, team_id).raised = ""

\* the matchup located by the call
ComparedMatchup ==
    get_current_matchup_scores(team_id, scoring_type, categories,
                               call.week, call.data).value

\* the fetch of the opponent's roster raises
OpponentRaises ==
    get_my_team(call.opponent_teams, ComparedMatchup.opponent_team_id).raised # ""

\* the rows projected for the roster of team tid in the response teams
ProjectedRowsOf(teams, tid) ==
    get_player_projections(player_stats, schedule_df,
                           get_my_team(teams, tid).value,
                           call.today, WeekEnd(call.today)).rows

\* C30: when the fetch of the opponent's roster raises, the opponent's
\* projection is the empty table and a note is printed; whenever one of the
\* two projections is empty, compare_with_opponent returns the current
\* matchup unchanged, without a 'comparison' entry and without raising.
\* The call, which waits for its three responses one after the other,
\* returns and prints what compare_with_opponent does on them as a whole.
C30_ComparisonDegrades ==
    Compared =>
        /\ OpponentRaises =>
            \E k \in 1..Len(log) : log[k].kind = "no_opponent_projections"
        /\ (\/ OpponentRaises
            \/ ProjectedRowsOf(call.teams, team_id) = << >>
            \/ ProjectedRowsOf(call.opponent_teams,
                               ComparedMatchup.opponent_team_id) = << >>) =>
            /\ raised = ""
            /\ result = ComparedMatchup
            /\ "comparison" \notin DOMAIN result
        /\ \E rounding \in {-1, 0, 1} :
            LET whole == compare_with_opponent(team_id, scoring_type,
                             categories, player_stats, schedule_df, call.week,
                             call.data, call.teams, call.opponent_teams,
                             call.today, rounding)
            IN  result = whole.value /\ raised = whole.raised /\ log = whole.log

\* C30 witness: a Points league, the response to the request of the
\* opponent's roster without the opponent's team, the analyzer's own projection not empty; the matchup comes back
\* without a comparison
C30_Witness ==
    /\ Compared
    /\ scoring_type = "Points"
    /\ OpponentRaises
    /\ ProjectedRowsOf(call.teams, team_id) # << >>
    /\ raised = ""
    /\ result = ComparedMatchup
    /\ result.opponent_team_id = 2
    /\ "comparison" \notin DOMAIN result

====
